---- MODULE Spec2Model ----
(***************************************************************************)
(* Filter expression language of the CRUD backend: the Lark grammar        *)
(* (grammar.py), the LALR parser with its contextual lexer (parser.py),    *)
(* the AST-building transformer (transformers.py), the operator enums      *)
(* (constants.py) and the two parse entry points with the module-level     *)
(* AST cache (queries/application/application.py), the predicate builder   *)
(* (filters.py), the expiring result cache (modules/cache/lru_expire) and  *)
(* the logger singleton (modules/logger/logger.py).                        *)
(*                                                                         *)
(* Python values are tagged records, so that Python's == between values    *)
(* of different types (a str and a tuple, say) is expressible:             *)
(*   str    [type |-> "str",   s |-> "abc"]                                *)
(*   float  [type |-> "float", m |-> 15, e |-> -1]      (15 * 10^-1)       *)
(*   list   [type |-> "list",  items |-> << ... >>]                        *)
(*   tuple  [type |-> "tuple", items |-> << ... >>]                        *)
(*   None   [type |-> "NoneType"]                                          *)
(*   int    [type |-> "int", n |-> 7]                                      *)
(*   enum members and AST nodes carry their class name as the type.        *)
(* Source text is a TLA+ string; the lexer reads it character by           *)
(* character.                                                              *)
(***************************************************************************)
EXTENDS Integers, Sequences, FiniteSets, TLC

VARIABLES
    AST_CACHE,      \* _AST_CACHE: function from source strings to ASTs
    last,           \* the last completed call of an entry point
    returned,       \* per source string: the ASTs optimized_parse_filters returned
    pc,             \* per thread: position inside optimized_parse_filters
    arg,            \* per thread: filters_str of the call in progress
    ast,            \* per thread: local variable ast (outcome of the parse)
    ret,            \* per thread: outcome of the thread's last completed call
    probe,          \* input and outcome of a direct FilterParser.parse run
    call,           \* the get_users / get_users_paginated call: position and locals
    compiled,       \* per AST: the outcomes build_filter gave for it so far
    now,            \* the clock datetime.utcnow() reads, in seconds
    func,           \* the lru-cached function object: lifetime, expiration, entries
    wrapped,        \* the wrapped_func call: position, arguments and outcome
    metaclass,      \* the metaclass in effect for StructLogger
    instances,      \* SingletonMeta._instances: function from keys to instances
    created,        \* every StructLogger instance constructed so far
    handed,         \* the instance each completed constructor call returned
    ctor            \* per thread: the StructLogger(...) call: position and locals

cacheVars == <<now, func, wrapped>>
loggerVars == <<metaclass, instances, created, handed, ctor>>

vars == <<AST_CACHE, last, returned, pc, arg, ast, ret, probe, call, compiled,
          cacheVars, loggerVars>>

----------------------------------------------------------------------------
(* Python values *)

PyStr(s) == [type |-> "str", s |-> s]
PyList(xs) == [type |-> "list", items |-> xs]
PyTuple(xs) == [type |-> "tuple", items |-> xs]
PyNone == [type |-> "NoneType"]
PyInt(n) == [type |-> "int", n |-> n]

\* x == y on built-in values: values of different types are never equal
PyEq(x, y) == x.type = y.type /\ x = y

\* x in t, for a tuple or a list t
PyIn(x, t) == \E i \in DOMAIN t.items : PyEq(x, t.items[i])

\* isinstance(x, list)
IsList(x) == x.type = "list"

\* truthiness of the values an entry point can hold in filter_ast/filters_str
Truthy(x) ==
    CASE x.type = "NoneType" -> FALSE
      [] x.type = "str" -> x.s # ""
      [] x.type = "int" -> x.n # 0
      [] x.type \in {"list", "tuple"} -> x.items # <<>>
      [] OTHER -> TRUE

\* outcome of a call: a returned value or a raised exception
Return(v) == [exc |-> "", val |-> v, msg |-> ""]
Raise(e, m) == [exc |-> e, val |-> PyNone, msg |-> m]
Raised(r) == r.exc # ""

----------------------------------------------------------------------------
(* Characters and numbers *)

LETTER ==
    {"a","b","c","d","e","f","g","h","i","j","k","l","m","n","o","p","q",
     "r","s","t","u","v","w","x","y","z",
     "A","B","C","D","E","F","G","H","I","J","K","L","M","N","O","P","Q",
     "R","S","T","U","V","W","X","Y","Z"}

DIGIT == {"0","1","2","3","4","5","6","7","8","9"}

WS_CHARS == {" ", "\t", "\f", "\r", "\n"}

Ch(s, i) == IF 1 <= i /\ i <= Len(s) THEN SubSeq(s, i, i) ELSE ""

\* first position >= i whose character is not in cls
RECURSIVE ScanWhile(_, _, _)
ScanWhile(s, i, cls) ==
    IF i <= Len(s) /\ Ch(s, i) \in cls THEN ScanWhile(s, i + 1, cls) ELSE i

DigitVal(c) ==
    CASE c = "0" -> 0 [] c = "1" -> 1 [] c = "2" -> 2 [] c = "3" -> 3
      [] c = "4" -> 4 [] c = "5" -> 5 [] c = "6" -> 6 [] c = "7" -> 7
      [] c = "8" -> 8 [] c = "9" -> 9

DigitChr(d) ==
    CASE d = 0 -> "0" [] d = 1 -> "1" [] d = 2 -> "2" [] d = 3 -> "3"
      [] d = 4 -> "4" [] d = 5 -> "5" [] d = 6 -> "6" [] d = 7 -> "7"
      [] d = 8 -> "8" [] d = 9 -> "9"

\* value of a (possibly empty) string of decimal digits
RECURSIVE DigitsVal(_)
DigitsVal(s) ==
    IF s = "" THEN 0
    ELSE 10 * DigitsVal(SubSeq(s, 1, Len(s) - 1)) + DigitVal(Ch(s, Len(s)))

\* decimal digits of a natural number
RECURSIVE NatStr(_)
NatStr(n) == IF n < 10 THEN DigitChr(n) ELSE NatStr(n \div 10) \o DigitChr(n % 10)

RECURSIVE Zeros(_)
Zeros(k) == IF k <= 0 THEN "" ELSE "0" \o Zeros(k - 1)

\* a double as mantissa * 10^exponent, mantissa without trailing zeros
RECURSIVE PyFloat(_, _)
PyFloat(m, e) ==
    IF m = 0 THEN [type |-> "float", m |-> 0, e |-> 0]
    ELSE IF m % 10 = 0 THEN PyFloat(m \div 10, e + 1)
    ELSE [type |-> "float", m |-> m, e |-> e]

\* the exponent of a NUMBER text whose mantissa ends before position p
FloatExp(text, p) ==
    IF Ch(text, p) \in {"e", "E"}
    THEN IF Ch(text, p + 1) = "-" THEN -DigitsVal(SubSeq(text, p + 2, Len(text)))
         ELSE IF Ch(text, p + 1) = "+" THEN DigitsVal(SubSeq(text, p + 2, Len(text)))
         ELSE DigitsVal(SubSeq(text, p + 1, Len(text)))
    ELSE 0

\* the double of a NUMBER text with integer digits before p1 and the
\* mantissa ending before p2
FloatParts(text, p1, p2) ==
    IF p2 > p1
    THEN PyFloat(DigitsVal(SubSeq(text, 1, p1 - 1) \o SubSeq(text, p1 + 1, p2 - 1)),
                 FloatExp(text, p2) - (p2 - p1 - 1))
    ELSE PyFloat(DigitsVal(SubSeq(text, 1, p1 - 1)), FloatExp(text, p2))

FloatFrom(text, p1) ==
    FloatParts(text, p1, IF Ch(text, p1) = "." THEN ScanWhile(text, p1 + 1, DIGIT) ELSE p1)

\* float(text) for the text of a NUMBER token
float(text) == FloatFrom(text, ScanWhile(text, 1, DIGIT))

----------------------------------------------------------------------------
(* Terminals of the grammar.  Each matcher returns the position after the  *)
(* longest match the terminal's regular expression makes at position i,    *)
(* or i itself when it does not match there.                               *)

\* CNAME: ("_"|LETTER) ("_"|LETTER|DIGIT)*
CNAME(s, i) ==
    IF Ch(s, i) \in LETTER \cup {"_"}
    THEN ScanWhile(s, i + 1, LETTER \cup DIGIT \cup {"_"})
    ELSE i

\* _EXP: ("e"|"E") ["+"|"-"] INT, optional: the position after it, or i
EXP(s, i) ==
    LET j == IF Ch(s, i + 1) \in {"+", "-"} THEN i + 2 ELSE i + 1
    IN IF Ch(s, i) \in {"e", "E"} /\ Ch(s, j) \in DIGIT
       THEN ScanWhile(s, j, DIGIT)
       ELSE i

\* NUMBER: FLOAT | INT; FLOAT: INT _EXP | DECIMAL _EXP?;
\* DECIMAL: INT "." INT? | "." INT
\* the end of a mantissa whose integer digits end before d (d = i: none)
Mantissa(s, i, d) ==
    IF d > i /\ Ch(s, d) # "." THEN d
    ELSE IF d > i \/ (Ch(s, i) = "." /\ Ch(s, i + 1) \in DIGIT)
    THEN ScanWhile(s, d + 1, DIGIT)
    ELSE i

NumberEnd(s, i, m) == IF m > i THEN EXP(s, m) ELSE i

NUMBER(s, i) == NumberEnd(s, i, Mantissa(s, i, ScanWhile(s, i, DIGIT)))

\* position of the first '"' at or after j that an even number of
\* backslashes precedes (odd: whether an odd run of backslashes ends at j-1);
\* 0 when there is none before the end of the line
RECURSIVE ClosingQuote(_, _, _)
ClosingQuote(s, j, odd) ==
    IF j > Len(s) \/ Ch(s, j) = "\n" THEN 0
    ELSE IF Ch(s, j) = "\"" /\ ~odd THEN j
    ELSE ClosingQuote(s, j + 1, Ch(s, j) = "\\" /\ ~odd)

\* ESCAPED_STRING: "\"" /.*?/ /(?<!\\)(\\\\)*?/ "\""
StringEnd(i, q) == IF q > 0 THEN q + 1 ELSE i

ESCAPED_STRING(s, i) ==
    IF Ch(s, i) = "\"" THEN StringEnd(i, ClosingQuote(s, i + 1, FALSE)) ELSE i

\* a string literal terminal
Literal(lit, s, i) ==
    IF i + Len(lit) - 1 <= Len(s) /\ SubSeq(s, i, i + Len(lit) - 1) = lit
    THEN i + Len(lit)
    ELSE i

\* the alternatives of OPERATOR, longest first as the terminal's regular
\* expression orders them
OPERATOR_ALTS ==
    <<"contains", "between", "not_in", "ilike", "like", "neq", "gte", "lte",
      "eq", "gt", "lt", "in">>

RECURSIVE FirstAlt(_, _, _)
FirstAlt(s, i, k) ==
    IF k > Len(OPERATOR_ALTS) THEN i
    ELSE IF i + Len(OPERATOR_ALTS[k]) - 1 <= Len(s)
            /\ SubSeq(s, i, i + Len(OPERATOR_ALTS[k]) - 1) = OPERATOR_ALTS[k]
    THEN i + Len(OPERATOR_ALTS[k])
    ELSE FirstAlt(s, i, k + 1)

OPERATOR(s, i) == FirstAlt(s, i, 1)

\* WS: /[ \t\f\r\n]/+
WS(s, i) == ScanWhile(s, i, WS_CHARS)

\* the anonymous string terminals of the grammar and their texts
KEYWORDS == [AND |-> "and", OR |-> "or", NOT |-> "not", COLON |-> ":", COMMA |-> ","]

Match(term, s, i) ==
    CASE term = "CNAME" -> CNAME(s, i)
      [] term = "NUMBER" -> NUMBER(s, i)
      [] term = "ESCAPED_STRING" -> ESCAPED_STRING(s, i)
      [] term = "OPERATOR" -> OPERATOR(s, i)
      [] term = "WS" -> WS(s, i)
      [] OTHER -> Literal(KEYWORDS[term], s, i)

\* the order in which a lexer tries its terminals
TERMINALS ==
    <<"CNAME", "ESCAPED_STRING", "NUMBER", "OPERATOR", "WS",
      "AND", "NOT", "OR", "COLON", "COMMA">>

----------------------------------------------------------------------------
(* constants.py: the operator enums.  A class is the sequence of its       *)
(* members in definition order.                                            *)

Member(cls, name, value) == [type |-> cls, name |-> name, value |-> value]

ComparisonOp ==
    <<Member("ComparisonOp", "EQ", "eq"), Member("ComparisonOp", "NEQ", "neq"),
      Member("ComparisonOp", "GT", "gt"), Member("ComparisonOp", "GTE", "gte"),
      Member("ComparisonOp", "LT", "lt"), Member("ComparisonOp", "LTE", "lte")>>

\* variant of CollectionOp whose NOT_IN takes the name of ComparisonOp.NEQ
CollectionOp_neq ==
    <<Member("CollectionOp", "IN", "in"), Member("CollectionOp", "NOT_IN", "neq")>>

CollectionOp ==
    <<Member("CollectionOp", "IN", "in"), Member("CollectionOp", "NOT_IN", "not_in")>>

RangeOp == <<Member("RangeOp", "BETWEEN", "between")>>

TextOp ==
    <<Member("TextOp", "LIKE", "like"), Member("TextOp", "ILIKE", "ilike"),
      Member("TextOp", "CONTAINS", "contains")>>

LogicalOp ==
    <<Member("LogicalOp", "AND", "and"), Member("LogicalOp", "OR", "or"),
      Member("LogicalOp", "NOT", "not")>>

\* BaseEnum.values: the tuple of the members' values
values(cls) == PyTuple([i \in DOMAIN cls |-> PyStr(cls[i].value)])

\* cls(value): the member with that value (called only for a value of cls)
EnumCall(cls, v) == cls[CHOOSE i \in DOMAIN cls : cls[i].value = v.s]

\* cls.NAME
Attr(cls, name) == cls[CHOOSE i \in DOMAIN cls : cls[i].name = name]

----------------------------------------------------------------------------
(* models.py: the AST nodes *)

Comparison_Node(field_, operator_, value_) ==
    [type |-> "Comparison_Node", field |-> field_, operator |-> operator_,
     value |-> value_]

Collection_Node(field_, operator_, values_) ==
    [type |-> "Collection_Node", field |-> field_, operator |-> operator_,
     values |-> values_]

Range_Node(field_, start_, end_) ==
    [type |-> "Range_Node", field |-> field_, start |-> start_, end |-> end_]

Text_Search_Node(field_, operator_, pattern_) ==
    [type |-> "Text_Search_Node", field |-> field_, operator |-> operator_,
     pattern |-> pattern_]

Logical_Node(operator_, operands_) ==
    [type |-> "Logical_Node", operator |-> operator_, operands |-> operands_]

----------------------------------------------------------------------------
(* str() and repr() of the values the transformer handles *)

\* repr of a double: shortest digits, plain notation while the decimal
\* point falls within (-4, 16], scientific notation outside
Abs(n) == IF n < 0 THEN -n ELSE n

\* digits d with the decimal point after the first decpt of them
FloatDigits(d, decpt) ==
    IF -4 < decpt /\ decpt <= 16
    THEN IF decpt <= 0 THEN "0." \o Zeros(-decpt) \o d
         ELSE IF decpt >= Len(d) THEN d \o Zeros(decpt - Len(d)) \o ".0"
         ELSE SubSeq(d, 1, decpt) \o "." \o SubSeq(d, decpt + 1, Len(d))
    ELSE SubSeq(d, 1, 1) \o (IF Len(d) > 1 THEN "." \o SubSeq(d, 2, Len(d)) ELSE "")
         \o "e" \o (IF decpt < 1 THEN "-" ELSE "+")
         \o (IF Abs(decpt - 1) < 10 THEN "0" ELSE "") \o NatStr(Abs(decpt - 1))

FloatText(d, e) == FloatDigits(d, Len(d) + e)

\* variant of float_repr that writes a whole number without its ".0"
float_repr_whole(x) == IF x.e = 0 THEN NatStr(x.m) ELSE FloatText(NatStr(x.m), x.e)

float_repr(x) == FloatText(NatStr(x.m), x.e)

RECURSIVE Contains(_, _)
Contains(s, c) == s # "" /\ (Ch(s, 1) = c \/ Contains(Tail(s), c))

\* body of repr(str) with quote character q
EscapedChar(c, q) ==
    CASE c = "\\" -> "\\\\"
      [] c = q -> "\\" \o q
      [] c = "\t" -> "\\t"
      [] c = "\r" -> "\\r"
      [] c = "\f" -> "\\x0c"
      [] OTHER -> c

RECURSIVE Escaped(_, _)
Escaped(s, q) ==
    IF s = "" THEN "" ELSE EscapedChar(Ch(s, 1), q) \o Escaped(Tail(s), q)

Quoted(s, q) == q \o Escaped(s, q) \o q

str_repr(s) ==
    Quoted(s, IF Contains(s, "'") /\ ~Contains(s, "\"") THEN "\"" ELSE "'")

repr(x) ==
    CASE x.type = "str" -> str_repr(x.s)
      [] x.type = "float" -> float_repr(x)

RECURSIVE Join(_, _)
Join(xs, k) ==
    IF k > Len(xs) THEN ""
    ELSE (IF k > 1 THEN ", " ELSE "") \o repr(xs[k]) \o Join(xs, k + 1)

\* str(value) for a value the grammar can produce
str(x) ==
    CASE x.type \in {"str", "Token"} -> PyStr(x.s)
      [] x.type = "float" -> PyStr(float_repr(x))
      [] x.type = "list" -> PyStr("[" \o Join(x.items, 1) \o "]")

----------------------------------------------------------------------------
(* transformers.py: FilterTransformer.  args is the sequence of the        *)
(* reduced children; a token is [type |-> "Token", ttype, s].              *)

Token(ttype, text) == [type |-> "Token", ttype |-> ttype, s |-> text]

\* variant of and_op that lists the operands right to left
and_op_reversed(args) ==
    Logical_Node(Attr(LogicalOp, "AND"),
                 PyList([i \in DOMAIN args |-> args[Len(args) + 1 - i]]))

and_op(args) == Logical_Node(Attr(LogicalOp, "AND"), PyList(args))

\* variant of or_op that merges the operands of a nested or into its own
or_op_flat(args) ==
    Logical_Node(Attr(LogicalOp, "OR"),
                 PyList(IF args[2].type = "Logical_Node"
                           /\ args[2].operator = Attr(LogicalOp, "OR")
                        THEN <<args[1]>> \o args[2].operands.items
                        ELSE args))

or_op(args) == Logical_Node(Attr(LogicalOp, "OR"), PyList(args))

\* variant of not_op that negates only the first operand of an and/or
not_op_inner(args) ==
    IF args[1].type = "Logical_Node" /\ Len(args[1].operands.items) = 2
    THEN Logical_Node(args[1].operator,
                      PyList(<<Logical_Node(Attr(LogicalOp, "NOT"),
                                            PyList(<<args[1].operands.items[1]>>)),
                               args[1].operands.items[2]>>))
    ELSE Logical_Node(Attr(LogicalOp, "NOT"), PyList(args))

not_op(args) == Logical_Node(Attr(LogicalOp, "NOT"), PyList(args))

field(args) == str(args[1])

operator(args) == str(args[1])

\* variant of string_value that keeps the quotes
string_value_quoted(args) == str(args[1])

string_value(args) ==
    IF Ch(args[1].s, 1) = "\"" /\ Ch(args[1].s, Len(args[1].s)) = "\""
    THEN PyStr(SubSeq(args[1].s, 2, Len(args[1].s) - 1))
    ELSE args[1]

number_value(args) == float(args[1].s)

name_value(args) == str(args[1])

single_value_expr(args) == args[1]

\* variant of list_value_expr that keeps only the first value
list_value_expr_first(args) == args[1]

list_value_expr(args) == PyList(args)

\* the body of comparison_expr once field, op, value = args; op = str(op)
\* variant of build_node that leaves a single value of in/not_in unwrapped
build_node_unwrapped(field_, op, value) ==
    IF PyIn(op, values(ComparisonOp))
    THEN Return(Comparison_Node(field_, EnumCall(ComparisonOp, op), value))
    ELSE IF PyIn(op, values(CollectionOp))
    THEN Return(Collection_Node(field_, EnumCall(CollectionOp, op), value))
    ELSE IF PyEq(op, values(RangeOp))
    THEN IF ~IsList(value) \/ Len(value.items) # 2
         THEN Raise("ValueError", "Between operator requires exactly two values")
         ELSE Return(Range_Node(field_, value.items[1], value.items[2]))
    ELSE IF PyIn(op, values(TextOp))
    THEN Return(Text_Search_Node(field_, EnumCall(TextOp, op), str(value)))
    ELSE Raise("ValueError", "Unknown operator: " \o op.s)

\* the four family tests of comparison_expr on an operator string, in order
FamilyTests(op) ==
    <<PyIn(op, values(ComparisonOp)), PyIn(op, values(CollectionOp)),
      PyEq(op, values(RangeOp)), PyIn(op, values(TextOp))>>

build_node(field_, op, value) ==
    IF PyIn(op, values(ComparisonOp))
    THEN Return(Comparison_Node(field_, EnumCall(ComparisonOp, op), value))
    ELSE IF PyIn(op, values(CollectionOp))
    THEN Return(Collection_Node(field_, EnumCall(CollectionOp, op),
                                IF ~IsList(value) THEN PyList(<<value>>) ELSE value))
    ELSE IF PyEq(op, values(RangeOp))
    THEN IF ~IsList(value) \/ Len(value.items) # 2
         THEN Raise("ValueError", "Between operator requires exactly two values")
         ELSE Return(Range_Node(field_, value.items[1], value.items[2]))
    ELSE IF PyIn(op, values(TextOp))
    THEN Return(Text_Search_Node(field_, EnumCall(TextOp, op), str(value)))
    ELSE Raise("ValueError", "Unknown operator: " \o op.s)

comparison_expr(args) == build_node(args[1], str(args[2]), args[3])

----------------------------------------------------------------------------
(* grammar.py: GRAMMAR as the LALR(1) automaton Lark builds from it.       *)
(* A parser state is named after the symbol whose shift or goto enters it. *)
(* Shift/reduce conflicts (on "and"/"or" after a complete logical_expr)    *)
(* are resolved as shift.                                                  *)

END == "$END"

ExprStart == {"start0", "NOT", "AND", "OR"}
ValueStart == {"COLON2", "COMMA_first", "COMMA_more"}
ValueToken == {"ESCAPED_STRING", "NUMBER", "CNAME_value"}
ExprEnd == {"logical_expr_0", "logical_expr_NOT", "logical_expr_AND", "logical_expr_OR"}
AfterValue == {"COMMA", "AND", "OR", END}
AfterExpr == {"AND", "OR", END}

Shift(state) == [act |-> "shift", to |-> state]
Reduce(rule) == [act |-> "reduce", to |-> rule]
Accept == [act |-> "accept", to |-> ""]
Error == [act |-> "error", to |-> ""]

\* the parse table: the action of state on lookahead terminal la
ParseTable(state, la) ==
    CASE state \in ExprStart /\ la = "NOT" -> Shift("NOT")
      [] state \in ExprStart /\ la = "CNAME" -> Shift("CNAME_field")
      [] state = "CNAME_field" /\ la = "COLON" -> Reduce("field")
      [] state = "field" /\ la = "COLON" -> Shift("COLON1")
      [] state = "COLON1" /\ la = "OPERATOR" -> Shift("OPERATOR")
      [] state = "OPERATOR" /\ la = "COLON" -> Reduce("operator")
      [] state = "operator" /\ la = "COLON" -> Shift("COLON2")
      [] state \in ValueStart /\ la = "ESCAPED_STRING" -> Shift("ESCAPED_STRING")
      [] state \in ValueStart /\ la = "NUMBER" -> Shift("NUMBER")
      [] state \in ValueStart /\ la = "CNAME" -> Shift("CNAME_value")
      [] state = "ESCAPED_STRING" /\ la \in AfterValue -> Reduce("string_value")
      [] state = "NUMBER" /\ la \in AfterValue -> Reduce("number_value")
      [] state = "CNAME_value" /\ la \in AfterValue -> Reduce("name_value")
      [] state = "single_value" /\ la = "COMMA" -> Shift("COMMA_first")
      [] state = "single_value" /\ la \in AfterExpr -> Reduce("single_value_expr")
      [] state = "single_value_first" /\ la \in AfterValue -> Reduce("plus_first")
      [] state = "single_value_more" /\ la \in AfterValue -> Reduce("plus_more")
      [] state = "plus" /\ la = "COMMA" -> Shift("COMMA_more")
      [] state = "plus" /\ la \in AfterExpr -> Reduce("list_value_expr")
      [] state = "value_expr" /\ la \in AfterExpr -> Reduce("comparison_expr")
      [] state = "comparison_expr" /\ la \in AfterExpr -> Reduce("logical_expr")
      [] state \in ExprEnd /\ la = "AND" -> Shift("AND")
      [] state \in ExprEnd /\ la = "OR" -> Shift("OR")
      [] state = "logical_expr_0" /\ la = END -> Reduce("expression")
      [] state = "logical_expr_NOT" /\ la = END -> Reduce("not_op")
      [] state = "logical_expr_AND" /\ la = END -> Reduce("and_op")
      [] state = "logical_expr_OR" /\ la = END -> Reduce("or_op")
      [] state = "expression" /\ la = END -> Reduce("start")
      [] state = "start" /\ la = END -> Accept
      [] OTHER -> Error

\* the state entered from `state` once nonterminal nt has been reduced
GOTO(state, nt) ==
    CASE nt = "logical_expr" /\ state = "start0" -> "logical_expr_0"
      [] nt = "logical_expr" -> "logical_expr_" \o state
      [] nt = "single_value" /\ state = "COLON2" -> "single_value"
      [] nt = "single_value" /\ state = "COMMA_first" -> "single_value_first"
      [] nt = "single_value" /\ state = "COMMA_more" -> "single_value_more"
      [] OTHER -> nt

\* the rules: left-hand side and number of right-hand-side symbols
RULES ==
    [start |-> <<"start", 1>>,
     expression |-> <<"expression", 1>>,
     logical_expr |-> <<"logical_expr", 1>>,
     and_op |-> <<"logical_expr", 3>>,
     or_op |-> <<"logical_expr", 3>>,
     not_op |-> <<"logical_expr", 2>>,
     comparison_expr |-> <<"comparison_expr", 5>>,
     field |-> <<"field", 1>>,
     operator |-> <<"operator", 1>>,
     single_value_expr |-> <<"value_expr", 1>>,
     list_value_expr |-> <<"value_expr", 2>>,
     plus_first |-> <<"plus", 2>>,
     plus_more |-> <<"plus", 3>>,
     string_value |-> <<"single_value", 1>>,
     number_value |-> <<"single_value", 1>>,
     name_value |-> <<"single_value", 1>>]

\* the callback of a rule on the values c of its right-hand side; the
\* anonymous tokens ":" "," "and" "or" "not" are filtered out, a rule
\* marked "?" with a single child passes the child on, and the helper
\* rule of ("," single_value)+ is spliced into list_value_expr
Callback(rule, c) ==
    CASE rule \in {"start", "expression", "logical_expr"} -> Return(c[1])
      [] rule = "and_op" -> Return(and_op(<<c[1], c[3]>>))
      [] rule = "or_op" -> Return(or_op(<<c[1], c[3]>>))
      [] rule = "not_op" -> Return(not_op(<<c[2]>>))
      [] rule = "comparison_expr" -> comparison_expr(<<c[1], c[3], c[5]>>)
      [] rule = "field" -> Return(field(c))
      [] rule = "operator" -> Return(operator(c))
      [] rule = "single_value_expr" -> Return(single_value_expr(c))
      [] rule = "list_value_expr" -> Return(list_value_expr(<<c[1]>> \o c[2]))
      [] rule = "plus_first" -> Return(<<c[2]>>)
      [] rule = "plus_more" -> Return(c[1] \o <<c[3]>>)
      [] rule = "string_value" -> Return(string_value(c))
      [] rule = "number_value" -> Return(number_value(c))
      [] rule = "name_value" -> Return(name_value(c))

----------------------------------------------------------------------------
(* parser.py: Lark(GRAMMAR, parser='lalr', transformer=FilterTransformer()) *)
(* The lexer is contextual: in each parser state it matches only the       *)
(* terminals the state has an action for, plus the ignored WS.             *)

Accepts(state) ==
    {TERMINALS[k] : k \in {j \in DOMAIN TERMINALS :
                              ParseTable(state, TERMINALS[j]).act # "error"}}

AllTerminals == {TERMINALS[k] : k \in DOMAIN TERMINALS}

\* index of the first terminal of terms, from the k-th on, matching at i
RECURSIVE FirstMatch(_, _, _, _)
FirstMatch(s, i, terms, k) ==
    IF k > Len(TERMINALS) THEN 0
    ELSE IF TERMINALS[k] \in terms /\ Match(TERMINALS[k], s, i) > i THEN k
    ELSE FirstMatch(s, i, terms, k + 1)

\* a CNAME whose whole text is a keyword of the lexer's terminals takes
\* the keyword's type
TokenType(term, text, terms) ==
    IF term = "CNAME" /\ \E kw \in DOMAIN KEYWORDS : kw \in terms /\ KEYWORDS[kw] = text
    THEN CHOOSE kw \in DOMAIN KEYWORDS : kw \in terms /\ KEYWORDS[kw] = text
    ELSE term

\* the next token at or after position i for a lexer over terms: ignored
\* WS is skipped; term is the first terminal matching at i (none: "") and
\* j the position after its match
RECURSIVE next_token(_, _, _)
Matched(s, i, terms, term, j) ==
    IF term = "" THEN [kind |-> "fail", at |-> i]
    ELSE IF term = "WS" THEN next_token(s, j, terms)
    ELSE [kind |-> "token", at |-> j,
          tok |-> Token(TokenType(term, SubSeq(s, i, j - 1), terms), SubSeq(s, i, j - 1))]

Scanned(s, i, terms, term) ==
    Matched(s, i, terms, term, IF term = "" THEN i ELSE Match(term, s, i))

Found(s, i, terms, k) == Scanned(s, i, terms, IF k = 0 THEN "" ELSE TERMINALS[k])

next_token(s, i, terms) ==
    IF i > Len(s) THEN [kind |-> "eof", at |-> i]
    ELSE Found(s, i, terms, FirstMatch(s, i, terms \cup {"WS"}, 1))

\* ContextualLexer.lex: a character no terminal of the state matches is an
\* UnexpectedToken when the lexer over all terminals finds a token there,
\* an UnexpectedCharacters otherwise
Relex(s, t) ==
    IF t.kind # "fail" THEN t
    ELSE IF FirstMatch(s, t.at, AllTerminals, 1) # 0
    THEN [kind |-> "UnexpectedToken", at |-> t.at]
    ELSE [kind |-> "UnexpectedCharacters", at |-> t.at]

lex(s, i, state) == Relex(s, next_token(s, i, Accepts(state)))

\* the parser's reaction to one token: reduce while the table says so
\* (running the callbacks), then shift or accept
RECURSIVE feed_token(_, _)

\* the stack after a reduction popped down to base and the callback gave r
Reduced(stack, tok, base, lhs, r) ==
    IF Raised(r)
    THEN [exc |-> r.exc, msg |-> r.msg, done |-> TRUE, stack |-> stack]
    ELSE feed_token(Append(base, [state |-> GOTO(base[Len(base)].state, lhs),
                                  value |-> r.val]), tok)

ReduceBy(stack, tok, rule, size) ==
    Reduced(stack, tok, SubSeq(stack, 1, Len(stack) - size), RULES[rule][1],
            Callback(rule, [k \in 1..size |-> stack[Len(stack) - size + k].value]))

Act(stack, tok, a) ==
    CASE a.act = "shift" ->
           [exc |-> "", msg |-> "", done |-> FALSE,
            stack |-> Append(stack, [state |-> a.to, value |-> tok])]
      [] a.act = "accept" ->
           [exc |-> "", msg |-> "", done |-> TRUE, stack |-> stack]
      [] a.act = "error" ->
           [exc |-> "UnexpectedToken", msg |-> "", done |-> TRUE, stack |-> stack]
      [] a.act = "reduce" -> ReduceBy(stack, tok, a.to, RULES[a.to][2])

feed_token(stack, tok) == Act(stack, tok, ParseTable(stack[Len(stack)].state, tok.ttype))

\* the parse loop: lex a token in the current state, feed it; at the end
\* of the text feed $END
RECURSIVE Run(_, _, _)
Fed(s, at, r) ==
    IF r.exc # "" THEN Raise(r.exc, r.msg)
    ELSE IF r.done THEN Return(r.stack[Len(r.stack)].value)
    ELSE Run(s, at, r.stack)

Lexed(s, stack, t) ==
    IF t.kind \in {"UnexpectedToken", "UnexpectedCharacters"}
    THEN Raise(t.kind, "")
    ELSE Fed(s, t.at, feed_token(stack, IF t.kind = "eof" THEN Token(END, "") ELSE t.tok))

Run(s, i, stack) == Lexed(s, stack, lex(s, i, stack[Len(stack)].state))

\* FilterParser.parse(expression)
parse(expression) == Run(expression, 1, <<[state |-> "start0", value |-> PyNone]>>)

----------------------------------------------------------------------------
(* queries/application/application.py: the two parse entry points *)

IsNonEmptyStr(x) == x.type = "str" /\ Truthy(x)

\* the filters_str values callers pass, sequentially and concurrently
Args ==
    {PyNone, PyInt(7), PyStr(""),
     PyStr("active:eq:Y"), PyStr("active:eq:Y and admin:eq:Y"), PyStr("id:in:1,2,3"),
     PyStr("not a valid expr"), PyStr("age:eq:@"), PyStr("age:between:18,65")}

ConcArgs ==
    {PyNone, PyStr("active:eq:Y"), PyStr("id:in:1,2,3"),
     PyStr("not a valid expr"), PyStr("age:eq:@")}

\* filter_str arguments of get_users and get_users_paginated
UserArgs ==
    {PyNone, PyStr(""), PyStr("active:eq:Y"),
     PyStr("active:eq:Y and admin:eq:Y"), PyStr("not a valid expr"),
     PyStr("age:eq:@"), PyStr("age:eq:18")}

\* parse tabulated over the strings passed, computed once
ParseOfArg ==
    [s \in {x.s : x \in {y \in Args \cup ConcArgs \cup UserArgs : y.type = "str"}} |-> parse(s)]

\* parser.parse(s) of a FilterParser instance
FilterParser_parse(s) == IF s \in DOMAIN ParseOfArg THEN ParseOfArg[s] ELSE parse(s)

\* parse_filters(filters_str): a fresh parser per call, no cache
\* try: ... except UnexpectedToken: None
ExceptUnexpectedToken(r) == IF r.exc = "UnexpectedToken" THEN Return(PyNone) ELSE r

\* variant of parse_filters that turns every parse failure into None
parse_filters_lenient(filters_str) ==
    IF IsNonEmptyStr(filters_str) /\ ~Raised(FilterParser_parse(filters_str.s))
    THEN FilterParser_parse(filters_str.s)
    ELSE Return(PyNone)

parse_filters(filters_str) ==
    IF IsNonEmptyStr(filters_str)
    THEN ExceptUnexpectedToken(FilterParser_parse(filters_str.s))
    ELSE Return(PyNone)

\* optimized_parse_filters(filters_str) run against cache: the outcome,
\* the cache it leaves and whether _FILTER_PARSER.parse was invoked
\* variant of Store that drops every other entry
StoreEvicting(cache, key, value) == [k \in {key} |-> value]

\* _AST_CACHE[key] = value
Store(cache, key, value) ==
    [k \in DOMAIN cache \cup {key} |-> IF k = key THEN value ELSE cache[k]]

\* variant of TryStore that also caches the None of a swallowed failure
TryStoreNegative(key, cache, r) ==
    IF ~Raised(r)
    THEN [out |-> Return(r.val), cache |-> Store(cache, key, r.val), parsed |-> TRUE]
    ELSE IF r.exc = "UnexpectedToken"
    THEN [out |-> Return(PyNone), cache |-> Store(cache, key, PyNone), parsed |-> TRUE]
    ELSE [out |-> r, cache |-> cache, parsed |-> TRUE]

\* the try block of optimized_parse_filters, r the outcome of the parse
TryStore(key, cache, r) ==
    IF ~Raised(r)
    THEN [out |-> Return(r.val), cache |-> Store(cache, key, r.val), parsed |-> TRUE]
    ELSE [out |-> ExceptUnexpectedToken(r), cache |-> cache, parsed |-> TRUE]

\* variant of optimized_parse_filters whose cache key is the first
\* comparison of the string instead of the whole string
KeyOf(s) == SubSeq(s, 1, ScanWhile(s, 1, LETTER \cup DIGIT \cup {"_", ":"}) - 1)

optimized_parse_filters_short_key(filters_str, cache) ==
    IF ~IsNonEmptyStr(filters_str)
    THEN [out |-> Return(PyNone), cache |-> cache, parsed |-> FALSE]
    ELSE IF KeyOf(filters_str.s) \in DOMAIN cache
    THEN [out |-> Return(cache[KeyOf(filters_str.s)]), cache |-> cache, parsed |-> FALSE]
    ELSE TryStore(KeyOf(filters_str.s), cache, FilterParser_parse(filters_str.s))

optimized_parse_filters(filters_str, cache) ==
    IF ~IsNonEmptyStr(filters_str)
    THEN [out |-> Return(PyNone), cache |-> cache, parsed |-> FALSE]
    ELSE IF filters_str.s \in DOMAIN cache
    THEN [out |-> Return(cache[filters_str.s]), cache |-> cache, parsed |-> FALSE]
    ELSE TryStore(filters_str.s, cache, FilterParser_parse(filters_str.s))

----------------------------------------------------------------------------
(* models/application.py: the Users class as getattr sees it. A mapped     *)
(* column is an SQL column expression; __tablename__ is a plain str and    *)
(* to_dict (inherited from Base) a plain function. The relationship        *)
(* attribute and the attributes the declarative base adds are left out.    *)

ColumnNames ==
    {"id", "userid", "passwd", "surname", "forename", "telno", "addr1", "addr2",
     "city", "state", "postcode", "active", "admin"}

Column(name) == [type |-> "Column", table |-> "users", name |-> name]

Users ==
    [n \in ColumnNames \cup {"__tablename__", "to_dict"} |->
        IF n = "__tablename__" THEN PyStr("users")
        ELSE IF n = "to_dict" THEN [type |-> "function", name |-> "to_dict"]
        ELSE Column(n)]

\* getattr(model, name)
getattr(model, name) ==
    IF name.s \in DOMAIN model THEN Return(model[name.s])
    ELSE Raise("AttributeError", "type object 'Users' has no attribute '" \o name.s \o "'")

PyBool(b) == [type |-> "bool", b |-> b]

\* Python's order on str: by code point, character by character (the
\* characters of the model's strings, in code point order)
CodePoints == " \"0123456789ABCDEFGHIJKLMNOPQRSTUVWXYZ_abcdefghijklmnopqrstuvwxyz"

Ord(c) == CHOOSE i \in 1..Len(CodePoints) : SubSeq(CodePoints, i, i) = c

RECURSIVE StrLess(_, _, _)
StrLess(a, b, i) ==
    IF i > Len(b) THEN FALSE
    ELSE IF i > Len(a) THEN TRUE
    ELSE IF Ch(a, i) = Ch(b, i) THEN StrLess(a, b, i + 1)
    ELSE Ord(Ch(a, i)) < Ord(Ch(b, i))

\* a <sym> b on two str
StrCompare(a, sym, b) ==
    CASE sym = ">" -> StrLess(b, a, 1)
      [] sym = ">=" -> ~StrLess(a, b, 1)
      [] sym = "<" -> StrLess(a, b, 1)
      [] sym = "<=" -> ~StrLess(b, a, 1)

BinaryExpression(left, sym, right) ==
    [type |-> "BinaryExpression", left |-> left, operator |-> sym, right |-> right]

TypeName(v) == IF v.type \in {"str", "float", "list", "function"} THEN v.type ELSE "object"

\* column <sym> value: an SQL expression on a column, Python's own
\* comparison on any other attribute
Compare(column, sym, value) ==
    IF column.type = "Column" THEN Return(BinaryExpression(column, sym, value))
    ELSE IF sym = "=" THEN Return(PyBool(PyEq(column, value)))
    ELSE IF sym = "!=" THEN Return(PyBool(~PyEq(column, value)))
    ELSE IF column.type = "str" /\ value.type = "str"
    THEN Return(PyBool(StrCompare(column.s, sym, value.s)))
    ELSE Raise("TypeError", "'" \o sym \o "' not supported between instances of '"
                            \o TypeName(column) \o "' and '" \o TypeName(value) \o "'")

\* column.in_(v), column.between(a, b), column.like(p), column.ilike(p),
\* column.contains(p): defined on columns only
Method(column, name, sym, value) ==
    IF column.type = "Column" THEN Return(BinaryExpression(column, sym, value))
    ELSE Raise("AttributeError", "'" \o TypeName(column) \o "' object has no attribute '"
                                 \o name \o "'")

\* ~expr on the expression in_ returns
Invert(r) == IF Raised(r) THEN r ELSE Return([r.val EXCEPT !.operator = "NOT IN"])

\* and_(*conditions), or_(*conditions)
BooleanClauseList(sym, conditions) ==
    IF Len(conditions) = 1 THEN conditions[1]
    ELSE [type |-> "BooleanClauseList", operator |-> sym, clauses |-> conditions]

and_(conditions) == Return(BooleanClauseList("AND", conditions))

or_(conditions) == Return(BooleanClauseList("OR", conditions))

\* not_(*conditions): not_ takes exactly one clause
not_(conditions) ==
    IF Len(conditions) = 1
    THEN Return([type |-> "UnaryExpression", operator |-> "NOT", element |-> conditions[1]])
    ELSE Raise("TypeError", "not_() takes 1 positional argument")

----------------------------------------------------------------------------
(* filters.py: SQLAlchemyFilterBuilder *)

\* variant of compare that exchanges > and >=
compare_swapped(column, node) ==
    IF Raised(column) THEN column
    ELSE IF node.operator = Attr(ComparisonOp, "EQ") THEN Compare(column.val, "=", node.value)
    ELSE IF node.operator = Attr(ComparisonOp, "NEQ") THEN Compare(column.val, "!=", node.value)
    ELSE IF node.operator = Attr(ComparisonOp, "GT") THEN Compare(column.val, ">=", node.value)
    ELSE IF node.operator = Attr(ComparisonOp, "GTE") THEN Compare(column.val, ">", node.value)
    ELSE IF node.operator = Attr(ComparisonOp, "LT") THEN Compare(column.val, "<", node.value)
    ELSE IF node.operator = Attr(ComparisonOp, "LTE") THEN Compare(column.val, "<=", node.value)
    ELSE Return(PyNone)

\* the body of visit_comparison_node after column = getattr(model, node.field)
compare(column, node) ==
    IF Raised(column) THEN column
    ELSE IF node.operator = Attr(ComparisonOp, "EQ") THEN Compare(column.val, "=", node.value)
    ELSE IF node.operator = Attr(ComparisonOp, "NEQ") THEN Compare(column.val, "!=", node.value)
    ELSE IF node.operator = Attr(ComparisonOp, "GT") THEN Compare(column.val, ">", node.value)
    ELSE IF node.operator = Attr(ComparisonOp, "GTE") THEN Compare(column.val, ">=", node.value)
    ELSE IF node.operator = Attr(ComparisonOp, "LT") THEN Compare(column.val, "<", node.value)
    ELSE IF node.operator = Attr(ComparisonOp, "LTE") THEN Compare(column.val, "<=", node.value)
    ELSE Return(PyNone)

visit_comparison_node(node, model) == compare(getattr(model, node.field), node)

collect(column, node) ==
    IF Raised(column) THEN column
    ELSE IF node.operator = Attr(CollectionOp, "IN")
    THEN Method(column.val, "in_", "IN", node.values)
    ELSE IF node.operator = Attr(CollectionOp, "NOT_IN")
    THEN Invert(Method(column.val, "in_", "IN", node.values))
    ELSE Return(PyNone)

visit_collection_node(node, model) == collect(getattr(model, node.field), node)

\* variant of range that passes end as the lower and start as the upper argument
range_swapped(column, node) ==
    IF Raised(column) THEN column
    ELSE Method(column.val, "between", "BETWEEN", PyTuple(<<node.end, node.start>>))

\* the body of visit_range_node after column = getattr(model, node.field)
range(column, node) ==
    IF Raised(column) THEN column
    ELSE Method(column.val, "between", "BETWEEN", PyTuple(<<node.start, node.end>>))

visit_range_node(node, model) == range(getattr(model, node.field), node)

search(column, node) ==
    IF Raised(column) THEN column
    ELSE IF node.operator = Attr(TextOp, "LIKE")
    THEN Method(column.val, "like", "LIKE", node.pattern)
    ELSE IF node.operator = Attr(TextOp, "ILIKE")
    THEN Method(column.val, "ilike", "ILIKE", node.pattern)
    ELSE IF node.operator = Attr(TextOp, "CONTAINS")
    THEN Method(column.val, "contains", "CONTAINS", node.pattern)
    ELSE Return(PyNone)

visit_text_search_node(node, model) == search(getattr(model, node.field), node)

\* the operator dispatch of visit_logical_node on the built conditions
combine(operator_, conditions) ==
    IF Raised(conditions) THEN conditions
    ELSE IF operator_ = Attr(LogicalOp, "AND") THEN and_(conditions.val)
    ELSE IF operator_ = Attr(LogicalOp, "OR") THEN or_(conditions.val)
    ELSE IF operator_ = Attr(LogicalOp, "NOT") THEN not_(conditions.val)
    ELSE Return(PyNone)

\* variant of Collected that appends the element after the rest
Collected_reversed(r, rest) ==
    IF Raised(r) THEN r
    ELSE IF Raised(rest) THEN rest
    ELSE Return(rest.val \o <<r.val>>)

\* one more element of the list comprehension: the first error ends it
Collected(r, rest) ==
    IF Raised(r) THEN r
    ELSE IF Raised(rest) THEN rest
    ELSE Return(<<r.val>> \o rest.val)

\* str.lower() and str.strip() on a class name
UPPER == "ABCDEFGHIJKLMNOPQRSTUVWXYZ"
LOWER == "abcdefghijklmnopqrstuvwxyz"

LowerChar(c) ==
    IF \E i \in 1..Len(UPPER) : SubSeq(UPPER, i, i) = c
    THEN SubSeq(LOWER, Ord(c) - Ord("A") + 1, Ord(c) - Ord("A") + 1)
    ELSE c

RECURSIVE lower(_)
lower(s) == IF s = "" THEN "" ELSE LowerChar(SubSeq(s, 1, 1)) \o lower(Tail(s))

RECURSIVE strip(_)
strip(s) ==
    IF s # "" /\ Ch(s, 1) \in WS_CHARS THEN strip(Tail(s))
    ELSE IF s # "" /\ Ch(s, Len(s)) \in WS_CHARS THEN strip(SubSeq(s, 1, Len(s) - 1))
    ELSE s

\* the visit_* methods getattr(self, ...) finds on the builder
VisitMethods ==
    {"visit_comparison_node", "visit_collection_node", "visit_range_node",
     "visit_text_search_node", "visit_logical_node"}

RECURSIVE build_filter(_, _)
RECURSIVE conditions_from(_, _, _)

\* [self.build_filter(operand, model) for operand in operands], from the k-th
conditions_from(operands, model, k) ==
    IF k > Len(operands) THEN Return(<< >>)
    ELSE Collected(build_filter(operands[k], model), conditions_from(operands, model, k + 1))

visit_logical_node(node, model) ==
    combine(node.operator, conditions_from(node.operands.items, model, 1))

build_filter(node, model) ==
    CASE "visit_" \o lower(strip(node.type)) \notin VisitMethods ->
             Raise("ValueError", "Unsupported node type: " \o node.type)
      [] node.type = "Comparison_Node" -> visit_comparison_node(node, model)
      [] node.type = "Collection_Node" -> visit_collection_node(node, model)
      [] node.type = "Range_Node" -> visit_range_node(node, model)
      [] node.type = "Text_Search_Node" -> visit_text_search_node(node, model)
      [] node.type = "Logical_Node" -> visit_logical_node(node, model)

----------------------------------------------------------------------------
(* Source strings for FilterParser.parse, built from their parts so that   *)
(* a property can name the field, the operator and the values of a string. *)

MaxValues == 3      \* longest comma list
MaxTerms == 3       \* longest and/or chain

\* field names: identifiers that are not keywords
Fields == {"age", "_f1"}

\* value tokens with the Python value each stands for
Values ==
    {[text |-> "Y", val |-> PyStr("Y")],
     [text |-> "18", val |-> [type |-> "float", m |-> 18, e |-> 0]],
     [text |-> "65", val |-> [type |-> "float", m |-> 65, e |-> 0]],
     [text |-> "6.50", val |-> [type |-> "float", m |-> 65, e |-> -1]],
     [text |-> "\"x y\"", val |-> PyStr("x y")]}

Operators == {OPERATOR_ALTS[k] : k \in DOMAIN OPERATOR_ALTS}

SeqsUpTo(S, lo, hi) == UNION {[1..n -> S] : n \in lo..hi}

Terms == [field : Fields, op : Operators, vals : SeqsUpTo(Values, 1, MaxValues)]

\* the comparison expressions and/or chains are built from
ChainTerms ==
    {[field |-> "active", op |-> "eq", vals |-> <<[text |-> "Y", val |-> PyStr("Y")]>>],
     [field |-> "id", op |-> "in",
      vals |-> <<[text |-> "18", val |-> [type |-> "float", m |-> 18, e |-> 0]],
                 [text |-> "Y", val |-> PyStr("Y")]>>],
     [field |-> "name", op |-> "like", vals |-> <<[text |-> "\"x y\"", val |-> PyStr("x y")]>>]}

Chains ==
    UNION {[neg : BOOLEAN, terms : [1..n -> ChainTerms], ops : [1..(n - 1) -> {"and", "or"}]]
              : n \in 2..MaxTerms}

\* strings outside the grammar, and strings with a keyword as the field
Malformed ==
    {"", "not a valid expr", "age:eq:@", "age:eq:18 @", "@", "age", "age:eq:",
     "age:eq:18,", "age:foo:18", "age:inx:18", "age;eq;18", "age:eq:18 and",
     "and age:eq:18", "not", "age:eq:\"x", "age:between:18,6.50 @", "age eq 18",
     "not:eq:Y"}

KeywordFields == {"and:eq:Y", "or:eq:Y"}

RECURSIVE RenderValues(_, _)
RenderValues(vals, k) ==
    IF k > Len(vals) THEN ""
    ELSE (IF k > 1 THEN "," ELSE "") \o vals[k].text \o RenderValues(vals, k + 1)

RenderTerm(t) == t.field \o ":" \o t.op \o ":" \o RenderValues(t.vals, 1)

RECURSIVE RenderChain(_, _)
RenderChain(c, k) ==
    IF k > Len(c.terms) THEN ""
    ELSE (IF k > 1 THEN " " \o c.ops[k - 1] \o " " ELSE "")
         \o RenderTerm(c.terms[k]) \o RenderChain(c, k + 1)

\* a string to parse with the parts it was built from (none for raw text)
TermProbe(t) == [text |-> RenderTerm(t), neg |-> FALSE, terms |-> <<t>>, ops |-> <<>>]
ChainProbe(c) ==
    [text |-> (IF c.neg THEN "not " ELSE "") \o RenderChain(c, 1),
     neg |-> c.neg, terms |-> c.terms, ops |-> c.ops]
RawProbe(s) == [text |-> s, neg |-> FALSE, terms |-> <<>>, ops |-> <<>>]

Probes ==
    {TermProbe(t) : t \in Terms} \cup {ChainProbe(c) : c \in Chains}
    \cup {RawProbe(s) : s \in Malformed \cup KeywordFields}

Pending == [exc |-> "pending", val |-> PyNone, msg |-> ""]

NoCall == [fn |-> "", arg |-> PyNone, out |-> Pending, parsed |-> FALSE]
NoProbe == [form |-> RawProbe(""), out |-> Pending]
NoThreads == /\ pc = << >> /\ arg = << >> /\ ast = << >> /\ ret = << >>
NoQuery == /\ call = << >> /\ compiled = << >>
NoCache == /\ now = 0 /\ func = << >> /\ wrapped = << >>
NoLogger ==
    /\ metaclass = "" /\ instances = << >> /\ created = {} /\ handed = {}
    /\ ctor = << >>

InitParse ==
    /\ NoCache /\ NoLogger
    /\ AST_CACHE = << >> /\ last = NoCall /\ returned = << >>
    /\ NoThreads /\ NoQuery
    /\ \E p \in Probes : probe = [form |-> p, out |-> Pending]

\* FilterParser().parse(text) on the drawn string
StrictParse ==
    /\ probe.out = Pending
    /\ probe' = [probe EXCEPT !.out = parse(probe.form.text)]
    /\ UNCHANGED <<AST_CACHE, last, returned, pc, arg, ast, ret, call, compiled,
                   cacheVars, loggerVars>>

NextParse == StrictParse

SpecParse == InitParse /\ [][NextParse]_vars

----------------------------------------------------------------------------
(* Sequential calls of the entry points on the module-level cache *)

MaxCounted == 2     \* calls per string counted in returned

\* hist with one more completed optimized_parse_filters(x) that returned
\* out.val: per string the set of values returned and the number of calls
Record(hist, x, out) ==
    IF x.type # "str" \/ Raised(out) THEN hist
    ELSE [k \in DOMAIN hist \cup {x.s} |->
             IF k # x.s THEN hist[k]
             ELSE IF k \in DOMAIN hist
             THEN [vals |-> hist[k].vals \cup {out.val},
                   n |-> IF hist[k].n < MaxCounted THEN hist[k].n + 1 ELSE hist[k].n]
             ELSE [vals |-> {out.val}, n |-> 1]]

Init ==
    /\ NoCache /\ NoLogger
    /\ AST_CACHE = << >>        \* _AST_CACHE = {}
    /\ last = NoCall
    /\ returned = << >>
    /\ NoThreads /\ NoQuery
    /\ probe = NoProbe

Completed(x, r) ==
    /\ AST_CACHE' = r.cache
    /\ last' = [fn |-> "optimized_parse_filters", arg |-> x, out |-> r.out,
                parsed |-> r.parsed]
    /\ returned' = Record(returned, x, r.out)
    /\ UNCHANGED <<pc, arg, ast, ret, probe, call, compiled,
                   cacheVars, loggerVars>>

OptimizedParseFilters(x) == Completed(x, optimized_parse_filters(x, AST_CACHE))

ParseFilters(x) ==
    /\ last' = [fn |-> "parse_filters", arg |-> x, out |-> parse_filters(x),
                parsed |-> IsNonEmptyStr(x)]
    /\ UNCHANGED <<AST_CACHE, returned, pc, arg, ast, ret, probe, call, compiled,
                   cacheVars, loggerVars>>

Next ==
    \E x \in Args :
        \/ OptimizedParseFilters(x)
        \/ ParseFilters(x)

Spec == Init /\ [][Next]_vars

----------------------------------------------------------------------------
(* Concurrent calls of optimized_parse_filters: the membership test, the   *)
(* read of a hit, the parse and the insert are separate steps.             *)

Threads == {"t1", "t2"}

NoReturn == [arg |-> PyNone, out |-> Pending]

InitConc ==
    /\ NoCache /\ NoLogger
    /\ AST_CACHE = << >> /\ last = NoCall /\ returned = << >>
    /\ probe = NoProbe /\ NoQuery
    /\ pc = [t \in Threads |-> "idle"]
    /\ arg = [t \in Threads |-> PyNone]
    /\ ast = [t \in Threads |-> PyNone]
    /\ ret = [t \in Threads |-> NoReturn]

\* the call ends with outcome out
Finish(t, out) ==
    /\ pc' = [pc EXCEPT ![t] = "idle"]
    /\ ret' = [ret EXCEPT ![t] = [arg |-> arg[t], out |-> out]]

\* the thread's local variable shared by mistake with the other threads
SharedAst(t) == ast[CHOOSE u \in Threads : TRUE]

\* the local variable ast of thread t
LocalAst(t) == ast[t]

\* a thread enters optimized_parse_filters(x); the guard returns None at once
Call(t, x) ==
    /\ pc[t] = "idle"
    /\ arg' = [arg EXCEPT ![t] = x]
    /\ ast' = [ast EXCEPT ![t] = PyNone]
    /\ IF IsNonEmptyStr(x)
       THEN /\ pc' = [pc EXCEPT ![t] = "check"]
            /\ ret' = [ret EXCEPT ![t] = NoReturn]
       ELSE /\ pc' = pc
            /\ ret' = [ret EXCEPT ![t] = [arg |-> x, out |-> Return(PyNone)]]
    /\ UNCHANGED <<AST_CACHE, last, returned, probe, call, compiled,
                   cacheVars, loggerVars>>

\* if filters_str in _AST_CACHE
Check(t) ==
    /\ pc[t] = "check"
    /\ pc' = [pc EXCEPT ![t] = IF arg[t].s \in DOMAIN AST_CACHE THEN "read" ELSE "parse"]
    /\ UNCHANGED <<AST_CACHE, last, returned, probe, arg, ast, ret, call, compiled,
                   cacheVars, loggerVars>>

\* return _AST_CACHE[filters_str]
Read(t) ==
    /\ pc[t] = "read"
    /\ Finish(t, IF arg[t].s \in DOMAIN AST_CACHE
                 THEN Return(AST_CACHE[arg[t].s])
                 ELSE Raise("KeyError", arg[t].s))
    /\ UNCHANGED <<AST_CACHE, last, returned, probe, arg, ast, call, compiled,
                   cacheVars, loggerVars>>

\* the outcome r of _FILTER_PARSER.parse: the AST goes to the local
\* variable, an UnexpectedToken is swallowed, any other error propagates
Parsed(t, r) ==
    IF ~Raised(r)
    THEN /\ ast' = [ast EXCEPT ![t] = r.val]
         /\ pc' = [pc EXCEPT ![t] = "insert"]
         /\ ret' = ret
    ELSE /\ ast' = ast
         /\ Finish(t, ExceptUnexpectedToken(r))

Parse(t) ==
    /\ pc[t] = "parse"
    /\ Parsed(t, FilterParser_parse(arg[t].s))
    /\ UNCHANGED <<AST_CACHE, last, returned, probe, arg, call, compiled,
                   cacheVars, loggerVars>>

\* _AST_CACHE[filters_str] = ast; return ast
Insert(t) ==
    /\ pc[t] = "insert"
    /\ AST_CACHE' = Store(AST_CACHE, arg[t].s, LocalAst(t))
    /\ Finish(t, Return(LocalAst(t)))
    /\ UNCHANGED <<last, returned, probe, arg, ast, call, compiled,
                   cacheVars, loggerVars>>

NextConc ==
    \E t \in Threads :
        \/ \E x \in ConcArgs : Call(t, x)
        \/ Check(t)
        \/ Read(t)
        \/ Parse(t)
        \/ Insert(t)

SpecConc == InitConc /\ [][NextConc]_vars

----------------------------------------------------------------------------
(* build_filter applied to ASTs built directly from the node classes:      *)
(* every node class on columns and on other names, alone and nested the    *)
(* way the parser nests (and/or to the right, not around the rest).        *)

MaxDepth == 2       \* deepest nesting of Logical nodes

BuildFields == {"active", "id", "age", "__tablename__", "to_dict"}

BuildValues == {PyStr("Y"), PyStr("users"), [type |-> "float", m |-> 18, e |-> 0]}

Leaves ==
    {Comparison_Node(PyStr(f), ComparisonOp[k], v) :
        f \in BuildFields, k \in DOMAIN ComparisonOp, v \in BuildValues}
    \cup {Collection_Node(PyStr(f), CollectionOp[k], PyList(<<v, PyStr("N")>>)) :
        f \in BuildFields, k \in DOMAIN CollectionOp, v \in BuildValues}
    \cup {Range_Node(PyStr(f), [type |-> "float", m |-> 18, e |-> 0],
                     [type |-> "float", m |-> 65, e |-> 0]) : f \in BuildFields}
    \cup {Range_Node(PyStr(f), [type |-> "float", m |-> 65, e |-> 0],
                     [type |-> "float", m |-> 18, e |-> 0]) : f \in BuildFields}
    \cup {Text_Search_Node(PyStr(f), TextOp[k], PyStr("Y")) :
        f \in BuildFields, k \in DOMAIN TextOp}

NestLeaves ==
    {Comparison_Node(PyStr("active"), Attr(ComparisonOp, "EQ"), PyStr("Y")),
     Comparison_Node(PyStr("age"), Attr(ComparisonOp, "GT"), [type |-> "float", m |-> 18, e |-> 0]),
     Collection_Node(PyStr("id"), Attr(CollectionOp, "IN"),
                     PyList(<<[type |-> "float", m |-> 18, e |-> 0],
                              [type |-> "float", m |-> 65, e |-> 0]>>)),
     Range_Node(PyStr("age"), PyStr("Y"), PyStr("users")),
     Range_Node(PyStr("id"), [type |-> "float", m |-> 65, e |-> 0],
                [type |-> "float", m |-> 18, e |-> 0])}

RECURSIVE Nested(_)
Nested(d) ==
    IF d = 0 THEN NestLeaves
    ELSE NestLeaves
         \cup {Logical_Node(Attr(LogicalOp, op), PyList(<<l, n>>)) :
                 op \in {"AND", "OR"}, l \in NestLeaves, n \in Nested(d - 1)}
         \cup {Logical_Node(Attr(LogicalOp, "NOT"), PyList(<<n>>)) : n \in Nested(d - 1)}

\* Logical nodes of the arities the parser never builds: the node class
\* takes any operand list
OtherArities ==
    {Logical_Node(Attr(LogicalOp, op), PyList(<<n>>)) :
        op \in {"AND", "OR"}, n \in Nested(1)}
    \cup {Logical_Node(Attr(LogicalOp, op), PyList(<<l, m, n>>)) :
        op \in {"AND", "OR", "NOT"}, l \in NestLeaves, m \in NestLeaves, n \in NestLeaves}
    \cup {Logical_Node(Attr(LogicalOp, "NOT"), PyList(<<l, n>>)) :
        l \in NestLeaves, n \in NestLeaves}

BuildAsts == Leaves \cup Nested(MaxDepth) \cup OtherArities \cup {[type |-> "FilterNode"]}

Unbound == [type |-> "unbound"]

\* the call record of a bare build_filter(node, Users)
BuildCall(node) ==
    [fn |-> "build_filter", pc |-> "build", filters_str |-> PyNone, to_dict |-> FALSE,
     page |-> 1, per_page |-> 1, filter_ast |-> node, filters |-> Unbound,
     out |-> Pending]

InitBuild ==
    /\ NoCache /\ NoLogger
    /\ AST_CACHE = << >> /\ last = NoCall /\ returned = << >>
    /\ NoThreads /\ probe = NoProbe /\ compiled = << >>
    /\ \E n \in BuildAsts : call = BuildCall(n)

\* SQLAlchemyFilterBuilder().build_filter(node, Users) on the drawn AST
BuildFilter ==
    /\ call.out = Pending
    /\ call' = [call EXCEPT !.out = build_filter(call.filter_ast, Users), !.pc = "idle"]
    /\ UNCHANGED <<AST_CACHE, last, returned, pc, arg, ast, ret, probe, compiled,
                   cacheVars, loggerVars>>

NextBuild == BuildFilter

SpecBuild == InitBuild /\ [][NextBuild]_vars

----------------------------------------------------------------------------
(* get_users and get_users_paginated: the parse step, the build step under *)
(* "if filter_ast:" and the query, one call at a time. The users table is  *)
(* a fixed list of rows (the columns the filters name), read in that       *)
(* order; a predicate selects the rows it holds for.                       *)

MaxPage == 2        \* largest page number passed
PerPages == {1, 10} \* per_page values passed (10 is the default)

Row(id, active, admin) ==
    [type |-> "Users", id |-> PyInt(id), active |-> PyStr(active), admin |-> PyStr(admin)]

UsersTable == <<Row(1, "Y", "Y"), Row(2, "Y", "N"), Row(3, "N", "N")>>

\* the predicate holds for the row (column expressions with = and !=,
\* the connectives)
RECURSIVE Holds(_, _)
Holds(p, row) ==
    CASE p.type = "BinaryExpression" /\ p.operator = "=" -> row[p.left.name] = p.right
      [] p.type = "BinaryExpression" /\ p.operator = "!=" -> row[p.left.name] # p.right
      [] p.type = "BooleanClauseList" /\ p.operator = "AND" ->
             \A i \in DOMAIN p.clauses : Holds(p.clauses[i], row)
      [] p.type = "BooleanClauseList" /\ p.operator = "OR" ->
             \E i \in DOMAIN p.clauses : Holds(p.clauses[i], row)
      [] p.type = "UnaryExpression" -> ~Holds(p.element, row)

\* query.filter(filters) when the branch ran, query otherwise; then .all()
Filtered(rows, filters) ==
    IF filters = Unbound THEN rows ELSE SelectSeq(rows, LAMBDA r : Holds(filters, r))

\* Base.to_dict(row)
Base_to_dict(row) == [type |-> "dict", items |-> row]

\* list(map(lambda x: x.to_dict(), res)) if to_dict else res
Listing(res, as_dict) ==
    PyList(IF as_dict THEN [i \in DOMAIN res |-> Base_to_dict(res[i])] ELSE res)

\* query.limit(per_page).offset((page - 1) * per_page).all()
Page(sel, page, per_page) ==
    SubSeq(sel, (page - 1) * per_page + 1,
           IF page * per_page < Len(sel) THEN page * per_page ELSE Len(sel))

\* what the call returns for the selected rows
Result(c, sel) ==
    IF c.fn = "get_users" THEN Listing(sel, c.to_dict)
    ELSE PyTuple(<<Listing(Page(sel, c.page, c.per_page), c.to_dict), PyInt(Len(sel))>>)

IdleCall ==
    [fn |-> "", pc |-> "idle", filters_str |-> PyNone, to_dict |-> FALSE,
     page |-> 1, per_page |-> 1, filter_ast |-> Unbound, filters |-> Unbound,
     out |-> Pending]

InitUsers ==
    /\ NoCache /\ NoLogger
    /\ AST_CACHE = << >> /\ last = NoCall /\ returned = << >>
    /\ NoThreads /\ probe = NoProbe
    /\ call = IdleCall /\ compiled = << >>

\* the call starts and runs its parse step, r the outcome of the step
Started(c, r) ==
    IF Raised(r) THEN call' = [c EXCEPT !.pc = "idle", !.out = r]
    ELSE call' = [c EXCEPT !.pc = "build", !.filter_ast = r.val]

\* filter_ast = optimized_parse_filters(filters_str=filter_str)
GetUsers(x, d, r) ==
    /\ call.pc = "idle"
    /\ AST_CACHE' = r.cache
    /\ Started([IdleCall EXCEPT !.fn = "get_users", !.filters_str = x, !.to_dict = d], r.out)
    /\ UNCHANGED <<last, returned, pc, arg, ast, ret, probe, compiled,
                   cacheVars, loggerVars>>

\* filter_ast = parse_filters(filters_str=filter_str)
GetUsersPaginated(x, d, page, per_page) ==
    /\ call.pc = "idle"
    /\ Started([IdleCall EXCEPT !.fn = "get_users_paginated", !.filters_str = x,
                                !.to_dict = d, !.page = page, !.per_page = per_page],
               parse_filters(x))
    /\ UNCHANGED <<AST_CACHE, last, returned, pc, arg, ast, ret, probe, compiled,
                   cacheVars, loggerVars>>

\* variant of HasFilter that takes every filter_ast
HasFilterAlways(filter_ast) == TRUE

\* if filter_ast:
HasFilter(filter_ast) == Truthy(filter_ast)

\* variant of Compile that reuses the predicate built earlier for a node
\* of the same class
CompileMemo(node) ==
    IF \E a \in DOMAIN compiled : a.type = node.type
    THEN CHOOSE b \in compiled[CHOOSE a \in DOMAIN compiled : a.type = node.type].vals : TRUE
    ELSE build_filter(node, Users)

\* fb = SQLAlchemyFilterBuilder(); fb.build_filter(filter_ast, Users)
Compile(node) == build_filter(node, Users)

\* hist with one more outcome b of compiling node: per AST the outcomes
\* so far and whether it was compiled more than once
Note(hist, node, b) ==
    [a \in DOMAIN hist \cup {node} |->
        IF a # node THEN hist[a]
        ELSE IF a \in DOMAIN hist
        THEN [vals |-> hist[a].vals \cup {b}, again |-> TRUE]
        ELSE [vals |-> {b}, again |-> FALSE]]

\* filters = ...: an error of build_filter ends the call
Built(b) ==
    /\ compiled' = Note(compiled, call.filter_ast, b)
    /\ IF Raised(b) THEN call' = [call EXCEPT !.pc = "idle", !.out = b]
       ELSE call' = [call EXCEPT !.pc = "query", !.filters = b.val]

\* an AST with the operand lists of its Logical nodes emptied
Drained(node) ==
    IF node.type = "Logical_Node" THEN [node EXCEPT !.operands = PyList(<< >>)] ELSE node

\* variant of Build whose builder consumes the operand lists it walks
BuildDraining ==
    /\ call.pc = "build" /\ call.fn # "build_filter"
    /\ IF HasFilter(call.filter_ast)
       THEN /\ compiled' = Note(compiled, call.filter_ast, Compile(call.filter_ast))
            /\ call' = [call EXCEPT !.pc = "query", !.filter_ast = Drained(call.filter_ast)]
            /\ AST_CACHE' = [s \in DOMAIN AST_CACHE |->
                               IF AST_CACHE[s] = call.filter_ast
                               THEN Drained(AST_CACHE[s]) ELSE AST_CACHE[s]]
       ELSE /\ call' = [call EXCEPT !.pc = "query"]
            /\ UNCHANGED <<AST_CACHE, compiled>>
    /\ UNCHANGED <<last, returned, pc, arg, ast, ret, probe,
                   cacheVars, loggerVars>>

\* the build step: if filter_ast: filters = fb.build_filter(filter_ast, Users)
Build ==
    /\ call.pc = "build" /\ call.fn # "build_filter"
    /\ IF HasFilter(call.filter_ast)
       THEN Built(Compile(call.filter_ast))
       ELSE /\ call' = [call EXCEPT !.pc = "query"]
            /\ compiled' = compiled
    /\ UNCHANGED <<AST_CACHE, last, returned, pc, arg, ast, ret, probe,
                   cacheVars, loggerVars>>

\* the query runs and the call returns
Query ==
    /\ call.pc = "query"
    /\ call' = [call EXCEPT !.pc = "idle",
                            !.out = Return(Result(call, Filtered(UsersTable, call.filters)))]
    /\ UNCHANGED <<AST_CACHE, last, returned, pc, arg, ast, ret, probe, compiled,
                   cacheVars, loggerVars>>

NextUsers ==
    \/ \E x \in UserArgs, d \in BOOLEAN : GetUsers(x, d, optimized_parse_filters(x, AST_CACHE))
    \/ \E x \in UserArgs, d \in BOOLEAN, page \in 1..MaxPage, per_page \in PerPages :
          GetUsersPaginated(x, d, page, per_page)
    \/ Build
    \/ Query

SpecUsers == InitUsers /\ [][NextUsers]_vars

----------------------------------------------------------------------------
(* modules/cache/lru_expire/cache.py: lru_cache_expiring around a function *)
(* of one argument.  The clock advances in whole seconds and may advance   *)
(* between any two statements of wrapped_func.  repoze.lru is not part of  *)
(* the repository: its lru_cache is taken to keep at most maxsize entries, *)
(* dropping one of them for a new entry once full, and the object it       *)
(* returns to have a clear attribute or not, depending on the library      *)
(* installed.                                                              *)

MaxNow == 5         \* the clock stops advancing here
Lifetime == 2       \* expires, in seconds
maxsize == 2

\* the arguments wrapped_func is called with
Keys == {"a", "b", "c"}

\* func after wrapper_cache ran at time t: lines 10-12
wrapper_cache(t, has_clear) ==
    [lifetime |-> Lifetime, expiration |-> t + Lifetime, cache |-> << >>,
     has_clear |-> has_clear]

NotWrapped ==
    [pc |-> "idle", args |-> "", t |-> 0, deadline |-> 0, at_call |-> << >>,
     at_lookup |-> << >>, out |-> Pending]

InitCache ==
    /\ AST_CACHE = << >> /\ last = NoCall /\ returned = << >>
    /\ NoThreads /\ NoQuery /\ probe = NoProbe /\ NoLogger
    /\ now = 0
    /\ \E h \in BOOLEAN : func = wrapper_cache(now, h)
    /\ wrapped = NotWrapped

CacheStep ==
    UNCHANGED <<AST_CACHE, last, returned, pc, arg, ast, ret, probe, call, compiled,
                loggerVars>>

\* time passes
Tick ==
    /\ now < MaxNow
    /\ now' = now + 1
    /\ UNCHANGED <<func, wrapped>>
    /\ CacheStep

\* wrapped_func(k) is called: the test of line 16 on a reading of the clock
\* (t, deadline and at_call keep what the call saw when it started)
Expired(k) ==
    /\ wrapped.pc = "idle"
    /\ wrapped' = [pc |-> IF now >= func.expiration THEN "clear" ELSE "lookup",
                   args |-> k, t |-> now, deadline |-> func.expiration,
                   at_call |-> func.cache, at_lookup |-> << >>, out |-> Pending]
    /\ UNCHANGED <<now, func>>
    /\ CacheStep

\* line 17: func.clear()
Clear ==
    /\ wrapped.pc = "clear"
    /\ IF func.has_clear
       THEN /\ func' = [func EXCEPT !.cache = << >>]
            /\ wrapped' = [wrapped EXCEPT !.pc = "reset"]
       ELSE /\ wrapped' = [wrapped EXCEPT !.pc = "idle",
                             !.out = Raise("AttributeError",
                                           "'function' object has no attribute 'clear'")]
            /\ UNCHANGED func
    /\ UNCHANGED now
    /\ CacheStep

\* line 18: func.expiration = datetime.utcnow() + func.lifetime
Reset ==
    /\ wrapped.pc = "reset"
    /\ func' = [func EXCEPT !.expiration = now + func.lifetime]
    /\ wrapped' = [wrapped EXCEPT !.pc = "lookup"]
    /\ UNCHANGED now
    /\ CacheStep

\* cache.put(key, val), victim the entry dropped when the cache is full
Put(cache, key, val, victim) ==
    [k \in (DOMAIN cache \ {victim}) \cup {key} |-> IF k = key THEN val ELSE cache[k]]

Victims(cache) ==
    IF Cardinality(DOMAIN cache) >= maxsize THEN DOMAIN cache ELSE {""}

\* line 19: return func(*args): a stored result, or the function's result
\* (here the time it ran at) stored under the arguments
Lookup ==
    /\ wrapped.pc = "lookup"
    /\ IF wrapped.args \in DOMAIN func.cache
       THEN /\ wrapped' = [wrapped EXCEPT !.pc = "idle", !.at_lookup = func.cache,
                             !.out = Return(func.cache[wrapped.args])]
            /\ UNCHANGED func
       ELSE /\ wrapped' = [wrapped EXCEPT !.pc = "idle", !.at_lookup = func.cache,
                             !.out = Return(now)]
            /\ \E victim \in Victims(func.cache) :
                  func' = [func EXCEPT !.cache = Put(func.cache, wrapped.args, now, victim)]
    /\ UNCHANGED now
    /\ CacheStep

NextCache ==
    \/ Tick
    \/ \E k \in Keys : Expired(k)
    \/ Clear
    \/ Reset
    \/ Lookup

SpecCache == InitCache /\ [][NextCache]_vars

----------------------------------------------------------------------------
(* modules/logger/logger.py: StructLogger(log_file=...) as get_logger      *)
(* calls it, from two threads.  The class names its metaclass with the     *)
(* __metaclass__ attribute, which Python 2 honours and Python 3 ignores:   *)
(* the metaclass in effect is SingletonMeta or type, depending on the      *)
(* interpreter.  Inside SingletonMeta.__call__ the membership test, the    *)
(* construction, the store and the final read are separate steps.          *)

MaxCalls == 2       \* constructor calls per thread

cwd == "/srv/app"

\* log_file arguments
LogFiles == {"logs.log", "./logs.log", "/srv/app/logs.log", "test.log"}

\* Path(p): a leading "./" is dropped
Path(p) == IF Len(p) >= 2 /\ SubSeq(p, 1, 2) = "./" THEN SubSeq(p, 3, Len(p)) ELSE p

\* str(Path(log_file).absolute())
absolute(p) == IF Ch(Path(p), 1) = "/" THEN Path(p) ELSE cwd \o "/" \o Path(p)

NotCalled == [pc |-> "idle", log_file |-> "", key |-> "", instance |-> 0, calls |-> 0]

InitLogger ==
    /\ AST_CACHE = << >> /\ last = NoCall /\ returned = << >>
    /\ NoThreads /\ NoQuery /\ probe = NoProbe /\ NoCache
    /\ metaclass \in {"SingletonMeta", "type"}
    /\ instances = << >>        \* _instances = {}
    /\ created = {} /\ handed = {}
    /\ ctor = [t \in Threads |-> NotCalled]

LoggerStep ==
    UNCHANGED <<AST_CACHE, last, returned, pc, arg, ast, ret, probe, call, compiled,
                cacheVars>>

\* a new StructLogger object for key, the n-th constructed
StructLogger(n, key) == [id |-> n, key |-> key]

\* get_logger(log_file) enters StructLogger(log_file=log_file): lines 55-59
get_logger(t, log_file) ==
    /\ ctor[t].pc = "idle" /\ ctor[t].calls < MaxCalls
    /\ ctor' = [ctor EXCEPT ![t] = [pc |-> IF metaclass = "SingletonMeta" THEN "test"
                                           ELSE "construct",
                                    log_file |-> log_file, key |-> absolute(log_file),
                                    instance |-> 0, calls |-> ctor[t].calls + 1]]
    /\ UNCHANGED <<metaclass, instances, created, handed>>
    /\ LoggerStep

\* line 61: if key not in cls._instances
Test(t) ==
    /\ ctor[t].pc = "test"
    /\ ctor' = [ctor EXCEPT ![t].pc = IF ctor[t].key \notin DOMAIN instances
                                      THEN "construct" ELSE "return"]
    /\ UNCHANGED <<metaclass, instances, created, handed>>
    /\ LoggerStep

\* line 62: instance = super(SingletonMeta, cls).__call__(*args, **kwargs);
\* under type this is the whole call
Construct(t) ==
    /\ ctor[t].pc = "construct"
    /\ created' = created \cup {StructLogger(Cardinality(created) + 1, ctor[t].key)}
    /\ IF metaclass = "SingletonMeta"
       THEN /\ ctor' = [ctor EXCEPT ![t].pc = "store",
                                    ![t].instance = Cardinality(created) + 1]
            /\ UNCHANGED handed
       ELSE /\ ctor' = [ctor EXCEPT ![t].pc = "idle",
                                    ![t].instance = Cardinality(created) + 1]
            /\ handed' = handed \cup {StructLogger(Cardinality(created) + 1, ctor[t].key)}
    /\ UNCHANGED <<metaclass, instances>>
    /\ LoggerStep

\* line 63: cls._instances[key] = instance
StoreInstance(t) ==
    /\ ctor[t].pc = "store"
    /\ instances' = [k \in DOMAIN instances \cup {ctor[t].key} |->
                        IF k = ctor[t].key THEN StructLogger(ctor[t].instance, k)
                        ELSE instances[k]]
    /\ ctor' = [ctor EXCEPT ![t].pc = "return"]
    /\ UNCHANGED <<metaclass, created, handed>>
    /\ LoggerStep

\* line 65: return cls._instances[key]
ReturnInstance(t) ==
    /\ ctor[t].pc = "return"
    /\ handed' = handed \cup {instances[ctor[t].key]}
    /\ ctor' = [ctor EXCEPT ![t].pc = "idle"]
    /\ UNCHANGED <<metaclass, instances, created>>
    /\ LoggerStep

NextLogger ==
    \E t \in Threads :
        \/ \E f \in LogFiles : get_logger(t, f)
        \/ Test(t)
        \/ Construct(t)
        \/ StoreInstance(t)
        \/ ReturnInstance(t)

SpecLogger == InitLogger /\ [][NextLogger]_vars

----------------------------------------------------------------------------
(* Properties of FilterParser.parse, checked under SpecParse *)

ProbeDone == probe.out # Pending

\* the drawn string is one comparison expression F:op:values
IsSingleTerm == Len(probe.form.terms) = 1 /\ ~probe.form.neg

TheTerm == probe.form.terms[1]

\* the ComparisonOp member the spec names for an operator keyword
ComparisonMember ==
    [eq |-> [type |-> "ComparisonOp", name |-> "EQ", value |-> "eq"],
     neq |-> [type |-> "ComparisonOp", name |-> "NEQ", value |-> "neq"],
     gt |-> [type |-> "ComparisonOp", name |-> "GT", value |-> "gt"],
     gte |-> [type |-> "ComparisonOp", name |-> "GTE", value |-> "gte"],
     lt |-> [type |-> "ComparisonOp", name |-> "LT", value |-> "lt"],
     lte |-> [type |-> "ComparisonOp", name |-> "LTE", value |-> "lte"]]

LogicalMember ==
    [and |-> [type |-> "LogicalOp", name |-> "AND", value |-> "and"],
     or |-> [type |-> "LogicalOp", name |-> "OR", value |-> "or"]]

\* C1: parsing F:between:v1,v2 succeeds and returns the Range node with
\* field F, start v1 and end v2 (numeric tokens as doubles).
C1_BetweenPairIsRange ==
    (ProbeDone /\ IsSingleTerm /\ TheTerm.op = "between" /\ Len(TheTerm.vals) = 2)
    => probe.out = Return(Range_Node(PyStr(TheTerm.field), TheTerm.vals[1].val,
                                     TheTerm.vals[2].val))

\* C2: parsing F:between:<values> with one value or with three or more
\* fails with the arity error "Between operator requires exactly two
\* values", not with the unknown-operator error, and returns no node.
C2_BetweenArityError ==
    (ProbeDone /\ IsSingleTerm /\ TheTerm.op = "between" /\ Len(TheTerm.vals) # 2)
    => probe.out = Raise("ValueError", "Between operator requires exactly two values")

\* C3: and/or chains are left-associative with equal precedence:
\* A op1 B op2 C parses to Logical(op2, [Logical(op1, [A, B]), C]).
C3_LeftAssociative ==
    (ProbeDone /\ Len(probe.form.terms) = 3 /\ ~probe.form.neg)
    => probe.out =
         Return(Logical_Node(LogicalMember[probe.form.ops[2]],
                  PyList(<<Logical_Node(LogicalMember[probe.form.ops[1]],
                             PyList(<<parse(RenderTerm(probe.form.terms[1])).val,
                                      parse(RenderTerm(probe.form.terms[2])).val>>)),
                           parse(RenderTerm(probe.form.terms[3])).val>>)))

\* C10: for every field F, operator op of eq, neq, gt, gte, lt, lte and
\* single value v, parsing F:op:v returns the Comparison node with field F
\* unmodified, the ComparisonOp member named op and value v (a bare
\* identifier as a string, a quoted string without its quotes, a number as
\* a double).
C10_ComparisonNode ==
    (ProbeDone /\ IsSingleTerm /\ TheTerm.op \in DOMAIN ComparisonMember
       /\ Len(TheTerm.vals) = 1)
    => probe.out = Return(Comparison_Node(PyStr(TheTerm.field),
                                          ComparisonMember[TheTerm.op],
                                          TheTerm.vals[1].val))

\* a parsed F:gte:"x y"
C10_Witness ==
    /\ ProbeDone /\ IsSingleTerm
    /\ TheTerm.op = "gte" /\ Len(TheTerm.vals) = 1 /\ TheTerm.vals[1].text = "\"x y\""
    /\ probe.out.val.type = "Comparison_Node"
    /\ probe.out.val.value = PyStr("x y")

CollectionMember ==
    [in |-> [type |-> "CollectionOp", name |-> "IN", value |-> "in"],
     not_in |-> [type |-> "CollectionOp", name |-> "NOT_IN", value |-> "not_in"]]

\* the nodes of an AST
RECURSIVE Subtrees(_)
Subtrees(n) ==
    IF n.type = "Logical_Node"
    THEN {n} \cup UNION {Subtrees(n.operands.items[i]) : i \in DOMAIN n.operands.items}
    ELSE {n}

\* C11: for op of in, not_in, parsing F:op:v1,...,vn returns the Collection
\* node whose values list holds v1..vn in the order written (numbers as
\* doubles), a single value giving the one-element list; every Collection
\* node the parser produces has a non-empty list of values.
C11_CollectionNode ==
    /\ (ProbeDone /\ IsSingleTerm /\ TheTerm.op \in DOMAIN CollectionMember)
       => probe.out =
            Return(Collection_Node(PyStr(TheTerm.field), CollectionMember[TheTerm.op],
                     PyList([i \in DOMAIN TheTerm.vals |-> TheTerm.vals[i].val])))
    /\ (ProbeDone /\ ~Raised(probe.out))
       => \A n \in Subtrees(probe.out.val) :
             n.type = "Collection_Node" => IsList(n.values) /\ n.values.items # << >>

\* a parsed F:not_in:65
C11_Witness ==
    /\ ProbeDone /\ IsSingleTerm
    /\ TheTerm.op = "not_in" /\ Len(TheTerm.vals) = 1 /\ TheTerm.vals[1].text = "65"
    /\ probe.out.val.type = "Collection_Node"
    /\ probe.out.val.values = PyList(<<[type |-> "float", m |-> 65, e |-> 0]>>)

\* C12: for comparison expressions X, Y and op of and, or, parsing X op Y
\* returns Logical(op, [ast(X), ast(Y)]) with the operands in source order.
C12_BinaryLogical ==
    (ProbeDone /\ Len(probe.form.terms) = 2 /\ ~probe.form.neg)
    => probe.out =
         Return(Logical_Node(LogicalMember[probe.form.ops[1]],
                  PyList(<<parse(RenderTerm(probe.form.terms[1])).val,
                           parse(RenderTerm(probe.form.terms[2])).val>>)))

\* a parsed X and Y with different X and Y
C12_Witness ==
    /\ ProbeDone /\ probe.form.text = "active:eq:Y and id:in:18,Y"
    /\ probe.out.val.type = "Logical_Node"
    /\ probe.out.val.operands.items[1].type = "Comparison_Node"
    /\ probe.out.val.operands.items[2].type = "Collection_Node"

\* the comparison expressions with a keyword in the field position
KeywordAsField == {"and:eq:Y", "or:eq:Y", "not:eq:Y"}

\* C15: and, or and not cannot be used as field names: parsing a comparison
\* expression whose field position holds one of them fails with a syntax
\* error and returns no node.
C15_KeywordsAreNotFields ==
    (ProbeDone /\ probe.form.text \in KeywordAsField)
    => probe.out.exc \in {"UnexpectedToken", "UnexpectedCharacters"}

\* the operator families and the value strings of each
Families == <<ComparisonOp, CollectionOp, RangeOp, TextOp, LogicalOp>>

FamilyValues(k) == {Families[k][i].value : i \in DOMAIN Families[k]}

\* C18: operator name strings are unique across the five families, so
\* the family tests of comparison_expr match at most one family for any
\* operator string.
C18_OperatorNamesUnique ==
    /\ \A j, k \in DOMAIN Families :
          j # k => FamilyValues(j) \cap FamilyValues(k) = {}
    /\ \A op \in UNION {FamilyValues(k) : k \in DOMAIN Families}
                   \cup {probe.form.terms[i].op : i \in DOMAIN probe.form.terms} :
          Cardinality({k \in 1..4 : FamilyTests(PyStr(op))[k]}) <= 1

\* a parsed F:in:... classified as a Collection node
C18_Witness ==
    /\ ProbeDone /\ IsSingleTerm /\ TheTerm.op = "in"
    /\ probe.out.val.type = "Collection_Node"
    /\ FamilyTests(PyStr("in")) = <<FALSE, TRUE, FALSE, FALSE>>

TextMember ==
    [like |-> [type |-> "TextOp", name |-> "LIKE", value |-> "like"],
     ilike |-> [type |-> "TextOp", name |-> "ILIKE", value |-> "ilike"],
     contains |-> [type |-> "TextOp", name |-> "CONTAINS", value |-> "contains"]]

\* the string form of each value token: a name and a quoted string as
\* they are, a number as the text of its double
StrForm(text) ==
    CASE text = "Y" -> "Y"
      [] text = "18" -> "18.0"
      [] text = "65" -> "65.0"
      [] text = "6.50" -> "6.5"
      [] text = "\"x y\"" -> "x y"

\* the same value as an element of the text of a list
ItemForm(text) ==
    CASE text = "Y" -> "'Y'"
      [] text = "18" -> "18.0"
      [] text = "65" -> "65.0"
      [] text = "6.50" -> "6.5"
      [] text = "\"x y\"" -> "'x y'"

RECURSIVE ItemsForm(_, _)
ItemsForm(vals, k) ==
    IF k > Len(vals) THEN ""
    ELSE (IF k > 1 THEN ", " ELSE "") \o ItemForm(vals[k].text) \o ItemsForm(vals, k + 1)

PatternForm(vals) ==
    IF Len(vals) = 1 THEN StrForm(vals[1].text) ELSE "[" \o ItemsForm(vals, 1) \o "]"

\* C24: for op of like, ilike, contains, parsing F:op:<value> returns the
\* TextSearch node whose pattern is a string: a name or quoted string
\* unchanged, a number as the text of its double, a comma list as the text
\* of the list.
C24_PatternIsString ==
    (ProbeDone /\ IsSingleTerm /\ TheTerm.op \in DOMAIN TextMember)
    => probe.out = Return(Text_Search_Node(PyStr(TheTerm.field), TextMember[TheTerm.op],
                                           PyStr(PatternForm(TheTerm.vals))))

\* a parsed F:ilike:"x y",18 with the pattern "['x y', 18.0]"
C24_Witness ==
    /\ ProbeDone /\ IsSingleTerm
    /\ TheTerm.op = "ilike" /\ Len(TheTerm.vals) = 2
    /\ TheTerm.vals[1].text = "\"x y\"" /\ TheTerm.vals[2].text = "18"
    /\ probe.out.val.type = "Text_Search_Node"
    /\ probe.out.val.pattern = PyStr("['x y', 18.0]")

\* C25: in every AST the parser returns, each Logical and/or node has
\* exactly two operands (a nested chain of one operator is not merged into
\* one node) and each Logical not node has exactly one.
C25_LogicalArity ==
    (ProbeDone /\ ~Raised(probe.out))
    => \A n \in Subtrees(probe.out.val) :
          n.type = "Logical_Node"
          => Len(n.operands.items) = (IF n.operator.value = "not" THEN 1 ELSE 2)

\* a parsed not A or B or C: three Logical nodes, two of them or
C25_Witness ==
    /\ ProbeDone /\ probe.form.neg /\ Len(probe.form.terms) = 3
    /\ probe.form.ops = <<"or", "or">>
    /\ ~Raised(probe.out)
    /\ Cardinality({n \in Subtrees(probe.out.val) :
                       n.type = "Logical_Node" /\ n.operator.value = "or"}) = 2
    /\ probe.out.val.operator.value = "not"

\* C28: the operand of not extends over the rest of the expression: for
\* comparison expressions X, Y and op of and, or, parsing not X op Y
\* returns Logical(NOT, [Logical(op, [X, Y])]), never
\* Logical(op, [Logical(NOT, [X]), Y]).
C28_NotCoversTheRest ==
    (ProbeDone /\ Len(probe.form.terms) = 2 /\ probe.form.neg)
    => probe.out =
         Return(Logical_Node([type |-> "LogicalOp", name |-> "NOT", value |-> "not"],
                  PyList(<<Logical_Node(LogicalMember[probe.form.ops[1]],
                             PyList(<<parse(RenderTerm(probe.form.terms[1])).val,
                                      parse(RenderTerm(probe.form.terms[2])).val>>))>>)))

\* a parsed not active:eq:Y and id:in:18,Y
C28_Witness ==
    /\ ProbeDone /\ probe.form.text = "not active:eq:Y and id:in:18,Y"
    /\ probe.out.val.operator.value = "not"
    /\ probe.out.val.operands.items[1].operator.value = "and"
    /\ probe.out.val.operands.items[1].operands.items[1].type = "Comparison_Node"

\* C30: for op of eq, neq, gt, gte, lt, lte, parsing F:op:v1,...,vn with
\* n >= 2 succeeds and returns the Comparison node whose value is the
\* whole ordered list [v1, ..., vn].
C30_ComparisonTakesList ==
    (ProbeDone /\ IsSingleTerm /\ TheTerm.op \in DOMAIN ComparisonMember
       /\ Len(TheTerm.vals) >= 2)
    => probe.out =
         Return(Comparison_Node(PyStr(TheTerm.field), ComparisonMember[TheTerm.op],
                  PyList([i \in DOMAIN TheTerm.vals |-> TheTerm.vals[i].val])))

\* a parsed F:lt:65,Y,6.50
C30_Witness ==
    /\ ProbeDone /\ IsSingleTerm
    /\ TheTerm.op = "lt" /\ Len(TheTerm.vals) = 3
    /\ TheTerm.vals[1].text = "65" /\ TheTerm.vals[2].text = "Y"
    /\ TheTerm.vals[3].text = "6.50"
    /\ probe.out.val.type = "Comparison_Node"
    /\ probe.out.val.value.items[3] = [type |-> "float", m |-> 65, e |-> -1]

----------------------------------------------------------------------------
(* Properties of the entry points and the cache, checked under Spec *)

SyntaxErrors == {"UnexpectedToken", "UnexpectedCharacters"}

\* the strings of Args that are outside the grammar
NotInGrammar == {"", "not a valid expr", "age:eq:@"}

LastOptimized == last.fn = "optimized_parse_filters"

\* the last call passed a non-empty string whose parse fails
LastUnparseable == IsNonEmptyStr(last.arg) /\ Raised(FilterParser_parse(last.arg.s))

\* C4: optimized_parse_filters never raises; it returns None whenever the
\* input is empty, is not a string or fails to parse for any reason.
C4_NeverRaises ==
    LastOptimized
    => /\ ~Raised(last.out)
       /\ (~IsNonEmptyStr(last.arg) \/ LastUnparseable) => last.out = Return(PyNone)

\* C5: for every string outside the grammar the strict parse fails with a
\* syntax error and returns no node, and optimized_parse_filters returns
\* None on the same string instead of failing.
C5_StrictFailsCachedReturnsNone ==
    (LastOptimized /\ last.arg.type = "str" /\ last.arg.s \in NotInGrammar)
    => /\ FilterParser_parse(last.arg.s).exc \in SyntaxErrors
       /\ last.out = Return(PyNone)

\* C6: no negative caching: the cache holds only strings whose parse
\* succeeded, a call with an unparseable string leaves the cache unchanged,
\* and every call with such a string invokes the parser (again).
C6_NoNegativeCaching ==
    /\ [](\A s \in DOMAIN AST_CACHE : ~Raised(FilterParser_parse(s)))
    /\ []((LastOptimized /\ LastUnparseable) => last.parsed)
    /\ [][(LastOptimized /\ LastUnparseable)' => AST_CACHE' = AST_CACHE]_vars

\* an unparseable string was passed a second time, with entries cached
C6_Witness ==
    /\ LastOptimized /\ last.arg = PyStr("not a valid expr") /\ last.parsed
    /\ "not a valid expr" \in DOMAIN returned /\ returned["not a valid expr"].n = 2
    /\ "active:eq:Y" \in DOMAIN AST_CACHE

\* C7: for every parseable string s, all optimized_parse_filters(s) calls,
\* whatever calls come in between, return structurally equal ASTs, each
\* equal to the strict parse of s.
C7_RepeatedCallsAgree ==
    \A s \in DOMAIN returned :
        ~Raised(FilterParser_parse(s)) => returned[s].vals = {FilterParser_parse(s).val}

\* two calls with the same parseable string, other strings cached too
C7_Witness ==
    /\ "active:eq:Y and admin:eq:Y" \in DOMAIN returned
    /\ returned["active:eq:Y and admin:eq:Y"].n = 2
    /\ "active:eq:Y" \in DOMAIN AST_CACHE
    /\ LastOptimized /\ last.arg = PyStr("active:eq:Y and admin:eq:Y") /\ ~last.parsed

\* C16: cache entries are never evicted or expired: a stored string stays
\* in the cache with the same AST in every later state, and the cache
\* size never decreases.
C16_NeverEvicted ==
    [][/\ \A s \in DOMAIN AST_CACHE :
             s \in DOMAIN AST_CACHE' /\ AST_CACHE'[s] = AST_CACHE[s]
       /\ Cardinality(DOMAIN AST_CACHE') >= Cardinality(DOMAIN AST_CACHE)]_vars

\* three strings cached, then a call that stored nothing
C16_Witness ==
    /\ Cardinality(DOMAIN AST_CACHE) = 3
    /\ LastOptimized /\ last.arg = PyStr("age:between:18,65")

\* C29: the cached and the uncached entry point agree: for every input and
\* every reachable state of the cache, optimized_parse_filters and
\* parse_filters both return None, both return equal ASTs, or both raise
\* the same kind of error.
C29_EntryPointsAgree ==
    /\ \A x \in Args :
          /\ optimized_parse_filters(x, AST_CACHE).out.exc = parse_filters(x).exc
          /\ optimized_parse_filters(x, AST_CACHE).out.val = parse_filters(x).val
    /\ LastOptimized
       => last.out.exc = parse_filters(last.arg).exc
          /\ last.out.val = parse_filters(last.arg).val

\* a cache hit behind it, then a call that raised as parse_filters does
C29_Witness ==
    /\ LastOptimized /\ last.arg = PyStr("age:between:18,65")
    /\ last.out.exc = "ValueError" /\ parse_filters(last.arg).exc = "ValueError"
    /\ "id:in:1,2,3" \in DOMAIN returned /\ returned["id:in:1,2,3"].n = 2
    /\ optimized_parse_filters(PyStr("id:in:1,2,3"), AST_CACHE).parsed = FALSE

----------------------------------------------------------------------------
(* Properties of concurrent calls, checked under SpecConc *)

\* C8: under every interleaving of concurrent optimized_parse_filters
\* calls the backing map is never corrupted: each completed call returns
\* what the sequential parse of its own string gives, and every cache
\* entry maps a string to the AST of that string's parse.
C8_ConcurrentCallsConsistent ==
    /\ \A s \in DOMAIN AST_CACHE : AST_CACHE[s] = FilterParser_parse(s).val /\ ~Raised(FilterParser_parse(s))
    /\ \A t \in Threads :
          (pc[t] = "idle" /\ IsNonEmptyStr(ret[t].arg))
          => ret[t].out = ExceptUnexpectedToken(FilterParser_parse(ret[t].arg.s))

\* both threads missed on the same string; one has inserted and returned,
\* the other is about to insert its own parse
C8_Witness ==
    /\ pc["t1"] = "idle" /\ ret["t1"].arg = PyStr("id:in:1,2,3")
    /\ ~Raised(ret["t1"].out)
    /\ pc["t2"] = "insert" /\ arg["t2"] = PyStr("id:in:1,2,3")
    /\ "id:in:1,2,3" \in DOMAIN AST_CACHE

----------------------------------------------------------------------------
(* Properties of build_filter, checked under SpecBuild *)

BuildDone == call.fn = "build_filter" /\ call.out # Pending

\* the node classes that carry a field
FieldNodes == {"Comparison_Node", "Collection_Node", "Range_Node", "Text_Search_Node"}

\* the AST has a field node whose field is not a column of the model
HasUnknownField(node) ==
    \E n \in Subtrees(node) : n.type \in FieldNodes /\ n.field.s \notin ColumnNames

\* C13: compiling an AST that contains a field node (at the root or under
\* Logical nodes) whose field the model does not expose fails with the
\* unknown-field error and never returns a predicate.
C13_UnknownFieldRaises ==
    (BuildDone /\ HasUnknownField(call.filter_ast)) => call.out.exc = "AttributeError"

\* the SQL relation the spec names for each Comparison operator
Relation ==
    [eq |-> "=", neq |-> "!=", gt |-> ">", gte |-> ">=", lt |-> "<", lte |-> "<="]

\* C20: compiling a Comparison node on an existing field returns the
\* predicate field <op> value, with eq, neq, gt, gte, lt, lte giving
\* =, !=, >, >=, <, <=; a predicate is returned, never an empty result.
C20_ComparisonPredicate ==
    (BuildDone /\ call.filter_ast.type = "Comparison_Node"
       /\ call.filter_ast.field.s \in ColumnNames)
    => call.out = Return(BinaryExpression(Column(call.filter_ast.field.s),
                                          Relation[call.filter_ast.operator.value],
                                          call.filter_ast.value))

\* a compiled id >= 18.0
C20_Witness ==
    /\ BuildDone
    /\ call.filter_ast = Comparison_Node(PyStr("id"), Attr(ComparisonOp, "GTE"),
                                         [type |-> "float", m |-> 18, e |-> 0])
    /\ call.out.val.type = "BinaryExpression" /\ call.out.val.operator = ">="

\* the 18.0 and 65.0 of the Range leaves
Eighteen == [type |-> "float", m |-> 18, e |-> 0]
SixtyFive == [type |-> "float", m |-> 65, e |-> 0]

\* C21: compiling a Range node on a column returns the between test on that
\* column with the node's start as the lower and its end as the upper
\* argument, as stored, also when start > end.
C21_RangeAsStored ==
    (BuildDone /\ call.filter_ast.type = "Range_Node"
       /\ call.filter_ast.field.s \in ColumnNames)
    => call.out = Return(BinaryExpression(Column(call.filter_ast.field.s), "BETWEEN",
                                          PyTuple(<<call.filter_ast.start,
                                                    call.filter_ast.end>>)))

\* a compiled id BETWEEN 65.0 AND 18.0
C21_Witness ==
    /\ BuildDone
    /\ call.filter_ast = Range_Node(PyStr("id"), SixtyFive, Eighteen)
    /\ call.out.val.right = PyTuple(<<SixtyFive, Eighteen>>)

\* the operands of a Logical node, and what each compiles to on its own
OperandsOf(node) == node.operands.items

Compiled(node, i) == build_filter(OperandsOf(node)[i], Users)

AllCompile(node) ==
    \A i \in DOMAIN OperandsOf(node) : ~Raised(Compiled(node, i))

\* the predicates of the operands, in operand order
Predicates(node) == [i \in DOMAIN OperandsOf(node) |-> Compiled(node, i).val]

IsLogical(node, ops) ==
    node.type = "Logical_Node" /\ node.operator \in {Attr(LogicalOp, o) : o \in ops}

\* the SQL connective of a Logical operator
Connective(node) == IF node.operator = Attr(LogicalOp, "OR") THEN "OR" ELSE "AND"

\* C22: compiling a Logical AND/OR node whose operands compile returns the
\* AND/OR of the operands' predicates in operand order; with exactly one
\* operand it returns that operand's predicate.
C22_CombinesInOrder ==
    (BuildDone /\ IsLogical(call.filter_ast, {"AND", "OR"}) /\ AllCompile(call.filter_ast))
    => call.out =
         Return(IF Len(OperandsOf(call.filter_ast)) = 1
                THEN Compiled(call.filter_ast, 1).val
                ELSE [type |-> "BooleanClauseList",
                      operator |-> Connective(call.filter_ast),
                      clauses |-> Predicates(call.filter_ast)])

\* a compiled OR of three different operands, and a compiled one-operand AND
C22_Witness ==
    /\ BuildDone
    /\ IsLogical(call.filter_ast, {"OR"})
    /\ Len(OperandsOf(call.filter_ast)) = 3
    /\ OperandsOf(call.filter_ast)[1].type = "Comparison_Node"
    /\ OperandsOf(call.filter_ast)[2].type = "Collection_Node"
    /\ OperandsOf(call.filter_ast)[3].type = "Range_Node"
    /\ AllCompile(call.filter_ast)
    /\ call.out.val.type = "BooleanClauseList"

C22_WitnessOne ==
    /\ BuildDone
    /\ IsLogical(call.filter_ast, {"AND"})
    /\ Len(OperandsOf(call.filter_ast)) = 1
    /\ AllCompile(call.filter_ast)
    /\ call.out.val.type = "BinaryExpression"

\* C23: compiling a Logical NOT node whose operands compile returns the
\* negation of the AND of the operands' predicates, for one operand and
\* for two or more.
C23_NotNegatesConjunction ==
    (BuildDone /\ IsLogical(call.filter_ast, {"NOT"}) /\ AllCompile(call.filter_ast))
    => call.out =
         Return([type |-> "UnaryExpression", operator |-> "NOT",
                 element |-> IF Len(OperandsOf(call.filter_ast)) = 1
                             THEN Compiled(call.filter_ast, 1).val
                             ELSE [type |-> "BooleanClauseList", operator |-> "AND",
                                   clauses |-> Predicates(call.filter_ast)]])

\* the one-operand case alone: NOT(p)
C23_UnaryNot ==
    (BuildDone /\ IsLogical(call.filter_ast, {"NOT"}) /\ AllCompile(call.filter_ast)
       /\ Len(OperandsOf(call.filter_ast)) = 1)
    => call.out = Return([type |-> "UnaryExpression", operator |-> "NOT",
                          element |-> Compiled(call.filter_ast, 1).val])

----------------------------------------------------------------------------
(* Properties of lru_cache_expiring, checked under SpecCache *)

WrappedDone == wrapped.pc = "idle" /\ wrapped.out # Pending

\* the call was made at or after the deadline it found
MadeAfterDeadline == wrapped.t >= wrapped.deadline

\* C26: a call made when the current time is at or after the stored
\* deadline removes every cached entry before the lookup and sets the
\* deadline to that time plus the lifetime; a call made before the deadline
\* clears no entry and leaves the deadline where it was.
C26_ExpiryClearsAndResets ==
    WrappedDone
    => IF MadeAfterDeadline
       THEN /\ ~Raised(wrapped.out)
            /\ wrapped.at_lookup = << >>
            /\ func.expiration = wrapped.t + Lifetime
       ELSE /\ wrapped.at_lookup = wrapped.at_call
            /\ func.expiration = wrapped.deadline

\* the part about calls made before the deadline alone
C26_HitsDoNotExtend ==
    (WrappedDone /\ ~MadeAfterDeadline)
    => /\ wrapped.at_lookup = wrapped.at_call
       /\ func.expiration = wrapped.deadline

\* with a clear attribute on func: the deadline is the lifetime after the
\* second reading of the clock, never before the time of the call plus
\* the lifetime
C26_DeadlineFromSecondReading ==
    (WrappedDone /\ MadeAfterDeadline /\ func.has_clear)
    => /\ wrapped.at_lookup = << >>
       /\ func.expiration >= wrapped.t + Lifetime

----------------------------------------------------------------------------
(* Properties of the logger singleton, checked under SpecLogger *)

\* C27: one instance per absolute log-file path: for every sequence and
\* interleaving of constructor calls with the same path, one instance is
\* ever created for it and every caller receives that instance.
C27_OneInstancePerPath ==
    /\ \A a, b \in created : a.key = b.key => a = b
    /\ \A a, b \in handed : a.key = b.key => a = b

----------------------------------------------------------------------------
(* Properties of get_users and get_users_paginated, checked under SpecUsers *)

UsersCallDone == call.pc = "idle" /\ call.fn \in {"get_users", "get_users_paginated"}

C17_NoneMeansUnfiltered ==
    (UsersCallDone /\ call.filter_ast = PyNone)
    => /\ call.filters = Unbound
       /\ call.out = Return(Result([call EXCEPT !.filters_str = PyNone], UsersTable))

\* get_users_paginated("not a valid expr", page=2, per_page=1) returned
\* the second of all rows and the count of all rows
C17_Witness ==
    /\ UsersCallDone /\ call.fn = "get_users_paginated"
    /\ call.filters_str = PyStr("not a valid expr") /\ call.filter_ast = PyNone
    /\ call.page = 2 /\ call.per_page = 1 /\ ~call.to_dict
    /\ call.out = Return(PyTuple(<<PyList(<<UsersTable[2]>>), PyInt(3)>>))

\* C19: build_filter leaves the AST it is given and the parse cache
\* unchanged, whether it returns a predicate or fails, so an AST shared
\* from the cache still equals the parse of its source string after any
\* number of compilations.
C19_BuildIsPure ==
    /\ [](\A s \in DOMAIN AST_CACHE : AST_CACHE[s] = FilterParser_parse(s).val)
    /\ [][call.pc = "build"
          => (AST_CACHE' = AST_CACHE /\ call'.filter_ast = call.filter_ast)]_vars

\* a cached AST compiled twice, the second time taken from the cache, and
\* a failed compilation of another cached AST
C19_Witness ==
    /\ UsersCallDone /\ call.fn = "get_users"
    /\ call.filters_str = PyStr("active:eq:Y and admin:eq:Y")
    /\ call.filter_ast \in DOMAIN compiled /\ compiled[call.filter_ast].again
    /\ \E a \in DOMAIN compiled : \E b \in compiled[a].vals : Raised(b)
    /\ "age:eq:18" \in DOMAIN AST_CACHE

====
